---- MODULE Spec2Model ----
(***************************************************************************)
(* Synchronization engine of the shielded-balance wallet SDK: getUtxos     *)
(* (single-flight paginated fetch loop), migrateStorageKeys, fetchUserUtxos*)
(* decrypt_outputs, areUtxosSpent / isUtxoSpent and clearCache.            *)
(*                                                                         *)
(* One wallet.  A step of the model is the code between two suspension     *)
(* points (await) of the asynchronous functions; migrateStorageKeys is     *)
(* taken as one step.  The module-level counters roundStartIndex and       *)
(* decryptionTaskFinished only feed log lines and are left out, as is the  *)
(* SDK_MIGRATION_TEST debug marker.  In the object form the indexer        *)
(* reports hasMore on every page but the last.  Writes to                  *)
(* chrome.storage.local succeed; its remove may fail.                      *)
(*                                                                         *)
(* Spec      any interleaving of getUtxos calls, synchronization steps,    *)
(*           spends on the ledger and clearCache calls                     *)
(* SpecSeq   a client that awaits each call before it makes the next       *)
(* SpecSpent direct calls of areUtxosSpent and isUtxoSpent                 *)
(***************************************************************************)
EXTENDS Integers, Sequences, FiniteSets, TLC

(* ----------------------------- bounds ---------------------------------- *)
\* number of items in the remote feed
FeedLen == 4
\* FETCH_UTXOS_GROUP_SIZE (imported from utils/constants.js): items asked for
\* per page
PageSize == 2
\* synchronizations (promises) created in one behaviour
MaxSyncs == 2
\* synchronizations started one after the other by an awaiting client
MaxSeqSyncs == 3
\* marker accounts created on the ledger in one behaviour
MaxSpends == 1
\* failed attempts of one areUtxosSpent call
MaxRetries == 1
\* clearCache calls in one behaviour
MaxClears == 1
\* notes handed to one direct call of areUtxosSpent
MaxBatch == 3
\* direct calls of migrateStorageKeys in one behaviour
MaxMigRuns == 2
\* direct calls of localstorageKey in one behaviour
MaxKeyCalls == 4
\* process restarts (memo tables lost) in one behaviour
MaxRestarts == 1
\* bits of the largest integer BN.toNumber converts (53 in bn.js), scaled down
NumberBits == 4
\* items of a feed long enough to overflow the recent-activity list
HistFeedLen == 22
\* synchronizations started one after the other on that feed
MaxHistSyncs == 2

(* ------------------------ program constants ---------------------------- *)
\* slice(0, 20) of the recent-activity index list
HistoryLimit == 20

(* ----------------------------- helpers --------------------------------- *)
None == <<>>
Some(v) == <<v>>
IsSome(o) == o # None
Val(o) == o[1]

Min2(a, b) == IF a < b THEN a ELSE b

Range(q) == {q[i] : i \in 1..Len(q)}

\* [...new Set(q)]: first occurrences, in insertion order
RECURSIVE Dedupe(_)
Dedupe(q) ==
    IF q = <<>> THEN <<>>
    ELSE LET d == Dedupe(SubSeq(q, 1, Len(q) - 1))
             x == q[Len(q)]
         IN  IF x \in Range(d) THEN d ELSE Append(d, x)

\* sort((a, b) => b - a) of a duplicate-free list
RECURSIVE SortDesc(_)
SortDesc(S) ==
    IF S = {} THEN <<>>
    ELSE LET m == CHOOSE x \in S : \A y \in S : y <= x
         IN  <<m>> \o SortDesc(S \ {m})

\* variant of slice that keeps the whole list
Take_All(q, n) == q

\* slice(0, n)
Take(q, n) == SubSeq(q, 1, Min2(n, Len(q)))

\* Number(s) of a string s that is no numeral
NaN == 0 - 1

\* [...new Set(q)].sort((a, b) => b - a) of a list that may hold NaN: b - a
\* is NaN when a or b is, which the sort takes as "equal".  With NaN and at
\* most one number every pair compares equal and the stable sort keeps the
\* order of the Set.  With NaN and two different numbers the comparator is
\* inconsistent and the order is implementation-defined: no value is given
\* for such a list.
SortNumbers(q) ==
    IF NaN \notin Range(q) THEN SortDesc(Range(q))
    ELSE IF Cardinality(Range(q) \ {NaN}) <= 1 THEN Dedupe(q)
    ELSE CHOOSE order \in {} : TRUE

\* [...new Set(list)].sort((a, b) => b - a).slice(0, 20)
Top20(q) == Take(SortNumbers(q), HistoryLimit)

(* ------------------------- the remote ledger --------------------------- *)
\* The feed is the list of ciphertexts 1..FeedLen; ciphertext c sits at
\* ledger position c - 1 (the answer of POST /utxos/indices).
Ciphertexts == 1..FeedLen
LedgerIndex(c) == c - 1
\* a falsy entry of encryptedOutputs (empty string, null)
NoCiphertext == 0
\* encryptionService.decryptUtxo succeeds for the wallet's own notes only
Owned(c) == c # 2
\* status == 'decrypted': neither skipped nor unDecrypted
Decrypted(encryptedOutput) ==
    encryptedOutput # NoCiphertext /\ Owned(encryptedOutput)
\* amount carried by the decrypted note
Amount(c) == IF c % 4 = 0 THEN 0 ELSE c
\* utxo.getNullifier(): injective in the note
Nullifier(c) == 100 + c
\* PublicKey.findProgramAddressSync([seed, nullifierBytes], PROGRAM_ID)
PDA(slot, nf) == <<slot, nf>>
Markers == {PDA(slot, Nullifier(c)) : slot \in {0, 1}, c \in Ciphertexts}

\* The indexer answers GET /utxos/range either with an object
\* {encrypted_outputs, hasMore} or with an array of items {encrypted_output,
\* ...}; blank holds the feed positions whose ciphertext is empty or missing.
ObjectForm == [arrayForm |-> FALSE, blank |-> {}]

(* --------------------------- storage keys ------------------------------ *)
Kinds == {"fetch_offset", "encrypted_outputs", "tradeHistory"}
\* Legacy, Hashed, Encrypted suffix
Gens == {"L", "H", "E"}
NoKey == "none"
Keys == {NoKey, "k"}
\* localstorageKey(publicKey, encryptionKey)
localstorageKey(key) == IF key # NoKey THEN "E" ELSE "H"
\* localstorageKeyOld(publicKey)
localstorageKeyOld == "L"

EmptyStore == [kd \in Kinds |-> [g \in Gens |-> None]]
getItem(st, kd, g) == st[kd][g]
setItem(st, kd, g, v) == [st EXCEPT ![kd][g] = Some(v)]
removeItem(st, kd, g) == [st EXCEPT ![kd][g] = None]

(* ------------------------- migrateStorageKeys -------------------------- *)
\* A migration in progress: the adapter store, the chrome.storage.local
\* store and the list oldKeysToDelete.
MigState(st, ch) == [st |-> st, ch |-> ch, del |-> {}]

\* storage.getItem(key), then chrome.storage.local.get(key) when the adapter
\* has nothing and the chrome API is present
MigRead(m, chromeApi, kd, g) ==
    IF IsSome(getItem(m.st, kd, g)) THEN getItem(m.st, kd, g)
    ELSE IF chromeApi THEN getItem(m.ch, kd, g) ELSE None

\* storage.setItem(newKey, v), then chrome.storage.local.set({[newKey]: v})
MigWrite(m, chromeApi, kd, g, v) ==
    [m EXCEPT !.st = setItem(m.st, kd, g, v),
              !.ch = IF chromeApi THEN setItem(m.ch, kd, g, v) ELSE m.ch]

\* variant of the merge that concatenates the two caches as they are
MergeValue_Concat(kd, src, dst) ==
    IF kd = "encrypted_outputs" THEN Some(src \o dst)
    ELSE IF kd = "tradeHistory" THEN Some(Top20(src \o dst))
    ELSE IF src > dst THEN Some(src) ELSE None

\* variant of the merge in which the source offset always wins
MergeValue_SourceWins(kd, src, dst) ==
    IF kd = "encrypted_outputs" THEN Some(Dedupe(src \o dst))
    ELSE IF kd = "tradeHistory" THEN Some(Top20(src \o dst))
    ELSE Some(src)

\* variant of the merge that keeps the destination cache only
MergeValue_KeepsNew(kd, src, dst) ==
    IF kd = "encrypted_outputs" THEN Some(Dedupe(dst))
    ELSE IF kd = "tradeHistory" THEN Some(Top20(src \o dst))
    ELSE IF src > dst THEN Some(src) ELSE None

\* a stored ciphertext cache that JSON.parse rejects
BadJson == <<NaN>>
\* JSON.parse(value) returns
JsonParses(value) == value # BadJson
\* oldNum > newNum: false when either is NaN
Greater(a, b) == a # NaN /\ b # NaN /\ a > b

\* variant of the merge that truncates no recent-activity list
MergeValue_NoSlice(kd, src, dst) ==
    IF kd = "encrypted_outputs"
    THEN IF JsonParses(src) /\ JsonParses(dst) THEN Some(Dedupe(src \o dst))
         ELSE None
    ELSE IF kd = "tradeHistory" THEN Some(SortNumbers(src \o dst))
    ELSE IF Greater(src, dst) THEN Some(src) ELSE None

\* merge of a source value into an existing destination value; None: no write
\* (the offset is not larger, or JSON.parse threw inside the try block)
MergeValue(kd, src, dst) ==
    IF kd = "encrypted_outputs"
    THEN IF JsonParses(src) /\ JsonParses(dst) THEN Some(Dedupe(src \o dst))
         ELSE None
    ELSE IF kd = "tradeHistory" THEN Some(Top20(src \o dst))
    ELSE IF Greater(src, dst) THEN Some(src) ELSE None

\* one leg (old -> new, or hashed -> encrypted) for one kind of data
MigrateLeg(m, chromeApi, kd, srcGen, newGen) ==
    LET srcValue == MigRead(m, chromeApi, kd, srcGen)
        newValue == MigRead(m, chromeApi, kd, newGen)
    IN  IF ~IsSome(srcValue) THEN m
        ELSE IF ~IsSome(newValue)
             THEN MigWrite(m, chromeApi, kd, newGen, Val(srcValue))
        ELSE LET merged == MergeValue(kd, Val(srcValue), Val(newValue))
             IN  IF IsSome(merged)
                 THEN MigWrite(m, chromeApi, kd, newGen, Val(merged))
                 ELSE m

\* variant of the loop body that runs the Hashed leg only when the Legacy key
\* held nothing
MigrateKind_OneLeg(m, chromeApi, kd, key) ==
    LET newGen == localstorageKey(key)
        needsMigration == key # NoKey /\ localstorageKey(NoKey) # newGen
        oldValue == MigRead(m, chromeApi, kd, localstorageKeyOld)
        m1 == MigrateLeg(m, chromeApi, kd, localstorageKeyOld, newGen)
        m2 == [m1 EXCEPT !.del = @ \cup {<<kd, localstorageKeyOld>>}]
        hashedValue == MigRead(m2, chromeApi, kd, "H")
        m3 == MigrateLeg(m2, chromeApi, kd, "H", newGen)
    IN  IF needsMigration /\ IsSome(hashedValue) /\ ~IsSome(oldValue)
        THEN [m3 EXCEPT !.del = @ \cup {<<kd, "H">>}]
        ELSE m2

\* body of the loop over keysToMigrate for one kind
MigrateKind(m, chromeApi, kd, key) ==
    LET newGen == localstorageKey(key)
        needsMigration == key # NoKey /\ localstorageKey(NoKey) # newGen
        m1 == MigrateLeg(m, chromeApi, kd, localstorageKeyOld, newGen)
        m2 == [m1 EXCEPT !.del = @ \cup {<<kd, localstorageKeyOld>>}]
        hashedValue == MigRead(m2, chromeApi, kd, "H")
        m3 == MigrateLeg(m2, chromeApi, kd, "H", newGen)
    IN  IF needsMigration /\ IsSome(hashedValue)
        THEN [m3 EXCEPT !.del = @ \cup {<<kd, "H">>}]
        ELSE m2

\* removal of every key of del from a store
RemoveAll(st, del) ==
    [kd \in Kinds |-> [g \in Gens |->
        IF <<kd, g>> \in del THEN None ELSE st[kd][g]]]

\* migrateStorageKeys(publicKey, storage, encryptionKey); delOk is the
\* outcome of chrome.storage.local.remove
migrateStorageKeys(st, ch, chromeApi, key, delOk) ==
    LET m1 == MigrateKind(MigState(st, ch), chromeApi, "fetch_offset", key)
        m2 == MigrateKind(m1, chromeApi, "encrypted_outputs", key)
        m3 == MigrateKind(m2, chromeApi, "tradeHistory", key)
    IN  IF chromeApi
        THEN [st |-> m3.st,
              ch |-> IF delOk THEN RemoveAll(m3.ch, m3.del) ELSE m3.ch]
        ELSE [st |-> RemoveAll(m3.st, m3.del), ch |-> m3.ch]

(* ----------------------------- spent check ----------------------------- *)
\* variant of allPDAs that derives the nullifier0 address only
RECURSIVE AllPDAs_Nullifier0Only(_, _)
AllPDAs_Nullifier0Only(utxos, i) ==
    IF i > Len(utxos) THEN <<>>
    ELSE << [utxoIndex |-> i, pda |-> PDA(0, Nullifier(utxos[i]))] >>
         \o AllPDAs_Nullifier0Only(utxos, i + 1)

\* allPDAs of areUtxosSpent: two entries per note, nullifier0 then nullifier1
RECURSIVE AllPDAs(_, _)
AllPDAs(utxos, i) ==
    IF i > Len(utxos) THEN <<>>
    ELSE << [utxoIndex |-> i, pda |-> PDA(0, Nullifier(utxos[i]))],
            [utxoIndex |-> i, pda |-> PDA(1, Nullifier(utxos[i]))] >>
         \o AllPDAs(utxos, i + 1)

\* the loop over results of connection.getMultipleAccountsInfo
RECURSIVE MarkSpent(_, _, _, _)
MarkSpent(flags, pdas, accounts, i) ==
    IF i > Len(pdas) THEN flags
    ELSE MarkSpent(IF pdas[i].pda \in accounts
                   THEN [flags EXCEPT ![pdas[i].utxoIndex] = TRUE]
                   ELSE flags,
                   pdas, accounts, i + 1)

\* areUtxosSpent(connection, utxos) on the accounts that exist
areUtxosSpent(accounts, utxos) ==
    MarkSpent([i \in 1..Len(utxos) |-> FALSE], AllPDAs(utxos, 1), accounts, 1)

\* variant of isUtxoSpent that returns after the nullifier0 lookup
isUtxoSpent_Nullifier0Only(accounts, utxo) ==
    PDA(0, Nullifier(utxo)) \in accounts

\* isUtxoSpent(connection, utxo) on the accounts that exist
isUtxoSpent(accounts, utxo) ==
    IF PDA(0, Nullifier(utxo)) \in accounts THEN TRUE
    ELSE IF PDA(1, Nullifier(utxo)) \in accounts THEN TRUE
    ELSE FALSE

(* ------------------------------- state --------------------------------- *)
VARIABLES
    feedLen,            \* number of items the indexer serves
    indexer,            \* shape of the indexer's answers, and its blank items
    storage,            \* the CacheStorage adapter
    chromeStore,        \* chrome.storage.local
    hasChrome,          \* typeof chrome !== 'undefined' && chrome.storage.local
    accounts,           \* marker accounts that exist on the ledger
    getMyUtxosPromise,  \* the in-flight handle: 0 (null) or a synchronization
    syncs,              \* the synchronizations created so far
    pending,            \* a getUtxos call suspended in its pre-check
    callError,          \* the last getUtxos call that threw in its pre-check
    otherCall,          \* a getUtxos call for a second wallet, with its outcome
    nclears,            \* clearCache calls made
    lastClear,          \* the clearCache call no getUtxos call has followed yet
    spentCall,          \* the last direct call of a spent check, with its answer
    migCall,            \* the direct calls of migrateStorageKeys made so far
    publicKeyHashCache,         \* memo table of hashPublicKey
    publicKeyEncryptionCache,   \* memo table of localstorageKey
    suffixes,           \* the direct calls of localstorageKey, with their results
    decryptCall,        \* the last direct call of decrypt_outputs, with its outcome
    balanceCall         \* the last direct call of getBalanceFromUtxos

vars == <<feedLen, indexer, callError, otherCall, storage, chromeStore, hasChrome, accounts, getMyUtxosPromise,
          syncs, pending, nclears, lastClear, spentCall, migCall, publicKeyHashCache,
          publicKeyEncryptionCache, suffixes, decryptCall, balanceCall>>

\* the state of the directly called functions
directVars == <<publicKeyHashCache, publicKeyEncryptionCache, suffixes,
                decryptCall, balanceCall>>

\* module load: empty memo tables, no direct call made
DirectInit ==
    /\ publicKeyHashCache = {}
    /\ publicKeyEncryptionCache = {}
    /\ suffixes = [boot |-> 0, calls |-> <<>>]
    /\ decryptCall = None
    /\ balanceCall = None

\* storage as an earlier release of the SDK left it after a first page
LegacyStore ==
    [EmptyStore EXCEPT !["fetch_offset"]["L"] = Some(PageSize),
                       !["encrypted_outputs"]["L"] = Some(<<1>>),
                       !["tradeHistory"]["L"] = Some(<<LedgerIndex(1)>>)]

\* storage as a synchronization without session key left it when the feed
\* was still empty
HashedStore ==
    [EmptyStore EXCEPT !["fetch_offset"]["H"] = Some(0),
                       !["encrypted_outputs"]["H"] = Some(<<>>)]

Init ==
    /\ feedLen \in {0, FeedLen - 1, FeedLen}
    /\ indexer = ObjectForm
    /\ storage \in IF feedLen = 0 THEN {EmptyStore}
                   ELSE {EmptyStore, LegacyStore, HashedStore}
    /\ chromeStore = EmptyStore
    /\ hasChrome \in BOOLEAN
    /\ accounts = {}
    /\ getMyUtxosPromise = 0
    /\ syncs = <<>>
    /\ pending = None
    /\ nclears = 0
    /\ lastClear = None
    /\ spentCall = None
    /\ migCall = None
    /\ callError = None
    /\ otherCall = None
    /\ DirectInit

SyncIds == 1..Len(syncs)
Ended(s) == syncs[s].pc \in {"done", "failed"}
AllEnded == \A s \in SyncIds : Ended(s)

\* the async function of getUtxos at its first await (inside migrateStorageKeys)
\* afterEnd, afterClear, migrations, offsetAfterMig, startOffset,
\* cacheAtStart, cacheRead, spentSeen, fetches and persisted record what the
\* synchronization did; the code keeps no such fields
NewSync(key) ==
    [key |-> key, pc |-> "migrate",
     valid_utxos |-> <<>>, history_indexes |-> {},
     fetch_utxo_offset |-> 0, len |-> 0, hasMore |-> FALSE,
     nonZeroUtxos |-> <<>>, spentFlags |-> <<>>, retries |-> 0,
     afterEnd |-> syncs # <<>> /\ AllEnded,
     afterClear |-> lastClear = Some([key |-> key, quiet |-> TRUE]),
     migrations |-> 0, offsetAfterMig |-> 0 - 1,
     startOffset |-> 0 - 1, cacheAtStart |-> <<>>, cacheRead |-> {},
     spentSeen |-> {}, fetches |-> 0, persisted |-> <<>>]

(* ------------------------------ getUtxos ------------------------------- *)
\* if (!getMyUtxosPromise) { getMyUtxosPromise = (async () => ...)() }
\* return getMyUtxosPromise
CreateOrAttach(h, key) ==
    IF h = 0
    THEN /\ syncs' = Append(syncs, NewSync(key))
         /\ getMyUtxosPromise' = Len(syncs) + 1
         /\ lastClear' = None
    ELSE /\ syncs' = syncs
         /\ getMyUtxosPromise' = h
         /\ lastClear' = lastClear

\* a call that finds no handle
CallStart(key) ==
    /\ Len(syncs) < MaxSyncs
    /\ pending = None
    /\ getMyUtxosPromise = 0
    /\ CreateOrAttach(0, key)
    /\ UNCHANGED <<feedLen, indexer, callError, otherCall, storage, chromeStore, hasChrome, accounts, pending, nclears,
                   spentCall, migCall,
                   directVars>>

\* a call without session key that finds a handle
CallAttach ==
    /\ pending = None
    /\ getMyUtxosPromise # 0
    /\ CreateOrAttach(getMyUtxosPromise, NoKey)
    /\ UNCHANGED <<feedLen, indexer, callError, otherCall, storage, chromeStore, hasChrome, accounts, pending, nclears,
                   spentCall, migCall,
                   directVars>>

\* a call with session key that finds a handle: suspends on localstorageKey
CallPrecheck(key) ==
    /\ pending = None
    /\ key # NoKey
    /\ getMyUtxosPromise # 0
    /\ pending' = Some(key)
    /\ UNCHANGED <<feedLen, indexer, callError, otherCall, storage, chromeStore, hasChrome, accounts,
                   getMyUtxosPromise, syncs, nclears, lastClear, spentCall, migCall,
                   directVars>>

\* variant of the pre-check that does not look under the Encrypted key
PrecheckDiscards_HashedOnly(st, key) ==
    /\ localstorageKey(NoKey) # localstorageKey(key)
    /\ IsSome(getItem(st, "encrypted_outputs", localstorageKey(NoKey)))

\* hasHashedData && !hasEncryptedData of the pre-check
PrecheckDiscards(st, key) ==
    /\ localstorageKey(NoKey) # localstorageKey(key)
    /\ IsSome(getItem(st, "encrypted_outputs", localstorageKey(NoKey)))
    /\ ~IsSome(getItem(st, "encrypted_outputs", localstorageKey(key)))

\* the pre-check after its awaits: discard the handle when hashed data has
\* no encrypted counterpart, then create or attach
CallResume ==
    /\ pending # None
    /\ LET h == IF PrecheckDiscards(storage, Val(pending))
                THEN 0 ELSE getMyUtxosPromise
       IN  /\ h = 0 => Len(syncs) < MaxSyncs
           /\ CreateOrAttach(h, Val(pending))
    /\ pending' = None
    /\ UNCHANGED <<feedLen, indexer, callError, otherCall, storage, chromeStore, hasChrome, accounts, nclears, spentCall, migCall,
                   directVars>>

\* variant of the synchronization that goes to its first page unmigrated
Migrate_Skipped(s) ==
    /\ syncs[s].pc = "migrate"
    /\ syncs' = [syncs EXCEPT ![s].pc = "page"]
    /\ UNCHANGED <<feedLen, indexer, callError, otherCall, storage, chromeStore, hasChrome, accounts,
                   getMyUtxosPromise, pending, nclears, lastClear, spentCall,
                   migCall, directVars>>

\* await migrateStorageKeys(publicKey, storage, storageKeyEncryptionKey)
Migrate(s) ==
    /\ syncs[s].pc = "migrate"
    /\ \E delOk \in IF hasChrome THEN BOOLEAN ELSE {TRUE} :
          LET r == migrateStorageKeys(storage, chromeStore, hasChrome,
                                      syncs[s].key, delOk)
              offsetStr == getItem(r.st, "fetch_offset",
                                   localstorageKey(syncs[s].key))
          IN  /\ storage' = r.st
              /\ chromeStore' = r.ch
              /\ syncs' = [syncs EXCEPT
                     ![s].pc = "page",
                     ![s].migrations = @ + 1,
                     ![s].offsetAfterMig =
                         IF IsSome(offsetStr) THEN Val(offsetStr) ELSE 0]
    /\ UNCHANGED <<feedLen, indexer, callError, otherCall, hasChrome, accounts, getMyUtxosPromise, pending, nclears, lastClear,
                   spentCall, migCall,
                   directVars>>

\* top of the while loop: read the offset and issue the range request
StartPage(s) ==
    /\ syncs[s].pc = "page"
    /\ LET g == localstorageKey(syncs[s].key)
           offsetStr == getItem(storage, "fetch_offset", g)
           offset == IF IsSome(offsetStr) THEN Val(offsetStr) ELSE 0
           cachedString == getItem(storage, "encrypted_outputs", g)
           first == syncs[s].fetches = 0
       IN  syncs' = [syncs EXCEPT
               ![s].pc = "fetch",
               ![s].fetch_utxo_offset = offset,
               ![s].startOffset = IF first THEN offset ELSE @,
               ![s].cacheAtStart =
                   IF first /\ IsSome(cachedString) THEN Val(cachedString) ELSE @,
               ![s].fetches = @ + 1]
    /\ UNCHANGED <<feedLen, indexer, callError, otherCall, storage, chromeStore, hasChrome, accounts,
                   getMyUtxosPromise, pending, nclears, lastClear, spentCall, migCall,
                   directVars>>

\* variant of the error path without the finally block
Fail_KeepsHandle(s) ==
    /\ syncs' = [syncs EXCEPT ![s].pc = "failed"]
    /\ UNCHANGED <<feedLen, indexer, callError, otherCall, storage, chromeStore, hasChrome, accounts,
                   getMyUtxosPromise, pending, nclears, lastClear, spentCall, migCall,
                   directVars>>

\* variant of the error path that persists the offset past the failed page
Fail_AdvancesOffset(s) ==
    /\ syncs' = [syncs EXCEPT ![s].pc = "failed"]
    /\ getMyUtxosPromise' = 0
    /\ storage' = setItem(storage, "fetch_offset", localstorageKey(syncs[s].key),
                          syncs[s].fetch_utxo_offset + PageSize)
    /\ UNCHANGED <<feedLen, indexer, callError, otherCall, chromeStore, hasChrome, accounts, pending, nclears,
                   lastClear, spentCall, migCall,
                   directVars>>

\* variant of the error path that persists the ciphertexts gathered so far
Fail_PersistsCache(s) ==
    /\ syncs' = [syncs EXCEPT ![s].pc = "failed"]
    /\ getMyUtxosPromise' = 0
    /\ storage' = setItem(storage, "encrypted_outputs", localstorageKey(syncs[s].key),
                          Dedupe(syncs[s].valid_utxos))
    /\ UNCHANGED <<feedLen, indexer, callError, otherCall, chromeStore, hasChrome, accounts, pending, nclears,
                   lastClear, spentCall, migCall,
                   directVars>>

\* catch (e) { throw e } finally { getMyUtxosPromise = null }
Fail(s) ==
    /\ syncs' = [syncs EXCEPT ![s].pc = "failed"]
    /\ getMyUtxosPromise' = 0
    /\ UNCHANGED <<feedLen, indexer, callError, otherCall, storage, chromeStore, hasChrome, accounts, pending, nclears, lastClear,
                   spentCall, migCall,
                   directVars>>

\* fetch(url) fails, !res.ok, empty data or unexpected format
FetchFail(s) ==
    /\ syncs[s].pc = "fetch"
    /\ Fail(s)

\* the raw items of the indexer's answer to GET /utxos/range?start&end on a
\* feed of n items: the ciphertext of each position, NoCiphertext if blank
RangeData(n, start) ==
    [i \in 1..(Min2(start + PageSize, n) - Min2(start, n)) |->
        IF start + i \in indexer.blank THEN NoCiphertext ELSE start + i]

\* utxo => utxo.encrypted_output
IsCiphertext(x) == x # NoCiphertext

\* encryptedOutputs of fetchUserUtxos: the items that carry a ciphertext when
\* the answer is an array, data.encrypted_outputs as it is otherwise
RangeItems(n, start) ==
    IF indexer.arrayForm THEN SelectSeq(RangeData(n, start), IsCiphertext)
    ELSE RangeData(n, start)
\* data.hasMore: undefined when the answer is an array
RangeHasMore(n, start) == ~indexer.arrayForm /\ start + PageSize < n

\* decrypt_outputs: the decryptable inputs, in input order
decrypt_outputs(encryptedOutputs) == SelectSeq(encryptedOutputs, Decrypted)

\* variant of fetchUserUtxos without the pass over the cached ciphertexts
fetchUserUtxos_SkipsCache(st, n, key, start) ==
    [utxos |-> decrypt_outputs(RangeItems(n, start)),
     hasMore |-> RangeHasMore(n, start),
     len |-> Len(RangeItems(n, start))]

\* variant of fetchUserUtxos that reads the cached ciphertexts only when the
\* last page is empty
fetchUserUtxos_CacheOnEmptyPage(st, n, key, start) ==
    LET cachedString == getItem(st, "encrypted_outputs", localstorageKey(key))
        fromPage == decrypt_outputs(RangeItems(n, start))
        fromCache == IF /\ ~RangeHasMore(n, start)
                        /\ RangeItems(n, start) = <<>>
                        /\ IsSome(cachedString)
                     THEN decrypt_outputs(Val(cachedString)) ELSE <<>>
    IN  [utxos |-> fromPage \o fromCache,
         hasMore |-> RangeHasMore(n, start),
         len |-> Len(RangeItems(n, start))]

\* myUtxos of fetchUserUtxos: the page, then the cached ciphertexts when the
\* page reports no further data
fetchUserUtxos(st, n, key, start) ==
    LET cachedString == getItem(st, "encrypted_outputs", localstorageKey(key))
        fromPage == decrypt_outputs(RangeItems(n, start))
        fromCache == IF ~RangeHasMore(n, start) /\ IsSome(cachedString)
                     THEN decrypt_outputs(Val(cachedString)) ELSE <<>>
    IN  [utxos |-> fromPage \o fromCache,
         hasMore |-> RangeHasMore(n, start),
         len |-> Len(RangeItems(n, start))]

\* POST /utxos/indices answers without a matching indices array
IndexFail(s) ==
    /\ syncs[s].pc = "fetch"
    /\ fetchUserUtxos(storage, feedLen, syncs[s].key,
                      syncs[s].fetch_utxo_offset).utxos # <<>>
    /\ Fail(s)

\* variant of the amount test that lets zero amounts through
IsNonZero_OrZero(c) == Amount(c) >= 0

\* utxo.amount.toNumber() > 0
IsNonZero(c) == Amount(c) > 0

\* variant of the offset write that adds the group size, not the page length
AfterPage_FullPage(s, sy) ==
    LET newOffset == sy.fetch_utxo_offset + PageSize
    IN  /\ storage' = setItem(storage, "fetch_offset", localstorageKey(sy.key), newOffset)
        /\ syncs' = [syncs EXCEPT ![s] =
               [sy EXCEPT !.pc = IF sy.hasMore THEN "page" ELSE "final",
                          !.persisted = Append(@, newOffset)]]
        /\ getMyUtxosPromise' = IF sy.hasMore THEN getMyUtxosPromise ELSE 0

\* variant of the end of the loop body that never breaks
AfterPage_NoBreak(s, sy) ==
    LET newOffset == sy.fetch_utxo_offset + sy.len
    IN  /\ storage' = setItem(storage, "fetch_offset", localstorageKey(sy.key), newOffset)
        /\ syncs' = [syncs EXCEPT ![s] =
               [sy EXCEPT !.pc = "page", !.persisted = Append(@, newOffset)]]
        /\ getMyUtxosPromise' = getMyUtxosPromise

\* storage.setItem(LSK_FETCH_OFFSET + suffix, offset + len); break or sleep;
\* the finally block runs on break
AfterPage(s, sy) ==
    LET newOffset == sy.fetch_utxo_offset + sy.len
    IN  /\ storage' = setItem(storage, "fetch_offset", localstorageKey(sy.key), newOffset)
        /\ syncs' = [syncs EXCEPT ![s] =
               [sy EXCEPT !.pc = IF sy.hasMore THEN "page" ELSE "final",
                          !.persisted = Append(@, newOffset)]]
        /\ getMyUtxosPromise' = IF sy.hasMore THEN getMyUtxosPromise ELSE 0

\* variant of the page step that records the indices of the positive-amount
\* notes only
FetchOk_HistoryOfNonZero(s) ==
    /\ syncs[s].pc = "fetch"
    /\ LET fetched == fetchUserUtxos(storage, feedLen, syncs[s].key,
                                     syncs[s].fetch_utxo_offset)
           nz == SelectSeq(fetched.utxos, IsNonZero)
           sy == [syncs[s] EXCEPT
                    !.history_indexes = @ \cup {LedgerIndex(c) : c \in Range(nz)},
                    !.hasMore = fetched.hasMore,
                    !.len = fetched.len,
                    !.nonZeroUtxos = nz,
                    !.cacheRead =
                        IF fetched.hasMore THEN {}
                        ELSE LET cachedString == getItem(storage, "encrypted_outputs",
                                                         localstorageKey(syncs[s].key))
                             IN  IF IsSome(cachedString)
                                 THEN Range(Val(cachedString)) ELSE {}]
       IN  IF nz # <<>>
           THEN /\ syncs' = [syncs EXCEPT ![s] = [sy EXCEPT !.pc = "spent"]]
                /\ UNCHANGED <<storage, getMyUtxosPromise>>
           ELSE AfterPage(s, sy)
    /\ UNCHANGED <<feedLen, indexer, callError, otherCall, chromeStore, hasChrome, accounts, pending, nclears,
                   lastClear, spentCall, migCall,
                   directVars>>

\* the loop body from the answer of fetchUserUtxos to the spent check or to
\* the offset write: notes are partitioned by amount
FetchPage(s) ==
    /\ syncs[s].pc = "fetch"
    /\ LET fetched == fetchUserUtxos(storage, feedLen, syncs[s].key,
                                     syncs[s].fetch_utxo_offset)
           nz == SelectSeq(fetched.utxos, IsNonZero)
           sy == [syncs[s] EXCEPT
                    !.history_indexes = @ \cup {LedgerIndex(c) : c \in Range(fetched.utxos)},
                    !.hasMore = fetched.hasMore,
                    !.len = fetched.len,
                    !.nonZeroUtxos = nz,
                    !.cacheRead =
                        IF fetched.hasMore THEN {}
                        ELSE LET cachedString == getItem(storage, "encrypted_outputs",
                                                         localstorageKey(syncs[s].key))
                             IN  IF IsSome(cachedString)
                                 THEN Range(Val(cachedString)) ELSE {}]
       IN  IF nz # <<>>
           THEN /\ syncs' = [syncs EXCEPT ![s] = [sy EXCEPT !.pc = "spent"]]
                /\ UNCHANGED <<storage, getMyUtxosPromise>>
           ELSE AfterPage(s, sy)

\* the page arrives and is decrypted
FetchOk(s) ==
    /\ FetchPage(s)
    /\ UNCHANGED <<feedLen, indexer, callError, otherCall, chromeStore, hasChrome, accounts, pending, nclears,
                   lastClear, spentCall, migCall,
                   directVars>>

\* areUtxosSpent catches an error, waits 3 s and calls itself again
SpentRetry(s) ==
    /\ syncs[s].pc = "spent"
    /\ syncs[s].retries < MaxRetries
    /\ syncs' = [syncs EXCEPT ![s].retries = @ + 1]
    /\ UNCHANGED <<feedLen, indexer, callError, otherCall, storage, chromeStore, hasChrome, accounts,
                   getMyUtxosPromise, pending, nclears, lastClear, spentCall, migCall,
                   directVars>>

\* the notes of q whose flag is false
RECURSIVE Unspent(_, _, _)
Unspent(q, flags, i) ==
    IF i > Len(q) THEN <<>>
    ELSE (IF flags[i] THEN <<>> ELSE <<q[i]>>) \o Unspent(q, flags, i + 1)

\* areUtxosSpent answers; unspent notes are accumulated, the offset persisted
SpentOk(s) ==
    /\ syncs[s].pc = "spent"
    /\ LET flags == areUtxosSpent(accounts, syncs[s].nonZeroUtxos)
           keep == Unspent(syncs[s].nonZeroUtxos, flags, 1)
           sy == [syncs[s] EXCEPT
                    !.spentFlags = flags,
                    !.retries = 0,
                    !.valid_utxos = @ \o keep,
                    !.spentSeen = @ \cup (Range(syncs[s].nonZeroUtxos) \ Range(keep))]
       IN  AfterPage(s, sy)
    /\ UNCHANGED <<feedLen, indexer, callError, otherCall, chromeStore, hasChrome, accounts, pending, nclears,
                   lastClear, spentCall, migCall,
                   directVars>>

\* after the finally block: persist the recent-activity set and the cache
Finalize(s) ==
    /\ syncs[s].pc = "final"
    /\ LET g == localstorageKey(syncs[s].key)
           rec == getItem(storage, "tradeHistory", g)
           recIndexes == IF IsSome(rec) THEN Range(Val(rec)) ELSE {}
           top20 == Take(SortDesc(syncs[s].history_indexes \cup recIndexes), HistoryLimit)
           st1 == IF top20 # <<>> THEN setItem(storage, "tradeHistory", g, top20)
                  ELSE storage
       IN  storage' = setItem(st1, "encrypted_outputs", g, Dedupe(syncs[s].valid_utxos))
    /\ syncs' = [syncs EXCEPT ![s].pc = "done"]
    /\ UNCHANGED <<feedLen, indexer, callError, otherCall, chromeStore, hasChrome, accounts, getMyUtxosPromise,
                   pending, nclears, lastClear, spentCall, migCall, directVars>>

(* ----------------------------- environment ----------------------------- *)
\* a note is spent on the ledger through one of its two nullifier slots
Spend(c, slot) ==
    /\ Cardinality(accounts) < MaxSpends
    /\ c <= feedLen
    /\ Owned(c) /\ IsNonZero(c)
    /\ PDA(slot, Nullifier(c)) \notin accounts
    /\ accounts' = accounts \cup {PDA(slot, Nullifier(c))}
    /\ UNCHANGED <<feedLen, indexer, callError, otherCall, storage, chromeStore, hasChrome, getMyUtxosPromise,
                   syncs, pending, nclears, lastClear, spentCall, migCall, directVars>>

\* PrivacyCash.clearCache()
clearCache(key) ==
    /\ nclears < MaxClears
    /\ LET g == localstorageKey(key)
       IN  storage' = removeItem(removeItem(storage, "fetch_offset", g),
                                 "encrypted_outputs", g)
    /\ nclears' = nclears + 1
    /\ lastClear' = Some([key |-> key, quiet |-> AllEnded])
    /\ UNCHANGED <<feedLen, indexer, callError, otherCall, chromeStore, hasChrome, accounts, getMyUtxosPromise,
                   syncs, pending, spentCall, migCall, directVars>>

LedgerStep == \E c \in Ciphertexts, slot \in {0, 1} : Spend(c, slot)

Next ==
    \/ \E key \in Keys : CallStart(key)
    \/ CallAttach
    \/ \E key \in Keys : CallPrecheck(key)
    \/ CallResume
    \/ \E s \in SyncIds : Migrate(s)
    \/ \E s \in SyncIds : StartPage(s)
    \/ \E s \in SyncIds : FetchFail(s)
    \/ \E s \in SyncIds : IndexFail(s)
    \/ \E s \in SyncIds : FetchOk(s)
    \/ \E s \in SyncIds : SpentRetry(s)
    \/ \E s \in SyncIds : SpentOk(s)
    \/ \E s \in SyncIds : Finalize(s)
    \/ LedgerStep
    \/ \E key \in Keys : clearCache(key)

Spec == Init /\ [][Next]_vars

(* A client that awaits each call (getUtxos, clearCache) before the next.  *)
CallSeq(key) ==
    /\ AllEnded
    /\ Len(syncs) < MaxSeqSyncs
    /\ pending = None
    /\ CreateOrAttach(IF key # NoKey /\ getMyUtxosPromise # 0
                         /\ PrecheckDiscards(storage, key)
                      THEN 0 ELSE getMyUtxosPromise,
                      key)
    /\ UNCHANGED <<feedLen, indexer, callError, otherCall, storage, chromeStore, hasChrome, accounts, pending, nclears,
                   spentCall, migCall,
                   directVars>>

clearCacheSeq(key) ==
    /\ AllEnded
    /\ clearCache(key)

NextSeq ==
    \/ \E key \in Keys : CallSeq(key)
    \/ \E s \in SyncIds : Migrate(s)
    \/ \E s \in SyncIds : StartPage(s)
    \/ \E s \in SyncIds : FetchFail(s)
    \/ \E s \in SyncIds : IndexFail(s)
    \/ \E s \in SyncIds : FetchOk(s)
    \/ \E s \in SyncIds : SpentRetry(s)
    \/ \E s \in SyncIds : SpentOk(s)
    \/ \E s \in SyncIds : Finalize(s)
    \/ LedgerStep
    \/ \E key \in Keys : clearCacheSeq(key)

SpecSeq == Init /\ [][NextSeq]_vars

(* Direct calls of migrateStorageKeys on storage left by earlier releases. *)
\* the absent value, or one of S
Opt(S) == {None} \cup {Some(v) : v \in S}

\* hi, hi - 1, ..., lo
DescRange(hi, lo) == [i \in 1..(hi - lo + 1) |-> hi + 1 - i]

\* fetch offsets a store may hold under the Legacy, Hashed and Encrypted key
MigOffsets == [L |-> {10, 50}, H |-> {10, 50}, E |-> {30}]
\* ciphertext caches a store may hold
MigCaches ==
    [L |-> {<<1, 2>>}, H |-> {<<3, 1>>}, E |-> {<<2, 3>>, <<>>}]
\* recent-activity lists a store may hold: sorted descending, 20 at most
MigHistories ==
    [L |-> {DescRange(19, 4)}, H |-> {<<40, 5>>}, E |-> {DescRange(24, 13)}]

\* the values of one kind under the three keys
KindStores(opts) ==
    {[g \in Gens |-> IF g = "L" THEN l ELSE IF g = "H" THEN h ELSE e] :
        l \in Opt(opts.L), h \in Opt(opts.H), e \in Opt(opts.E)}

MigStores ==
    {[kd \in Kinds |-> IF kd = "fetch_offset" THEN o
                       ELSE IF kd = "encrypted_outputs" THEN c ELSE h] :
        o \in KindStores(MigOffsets), c \in KindStores(MigCaches),
        h \in KindStores(MigHistories)}

\* where the data sits: in the adapter only (no chrome API, or chrome API with
\* an empty chrome.storage.local), in both, or in chrome.storage.local only
InitMig ==
    /\ feedLen = 0
    /\ indexer = ObjectForm
    /\ \E x \in MigStores, place \in {"adapter", "both", "chrome"} :
          /\ storage = IF place = "chrome" THEN EmptyStore ELSE x
          /\ chromeStore = IF place = "adapter" THEN EmptyStore ELSE x
          /\ hasChrome \in IF place = "adapter" THEN BOOLEAN ELSE {TRUE}
    /\ accounts = {}
    /\ getMyUtxosPromise = 0
    /\ syncs = <<>>
    /\ pending = None
    /\ nclears = 0
    /\ lastClear = None
    /\ spentCall = None
    /\ migCall = None
    /\ callError = None
    /\ otherCall = None
    /\ DirectInit

\* await migrateStorageKeys(publicKey, storage, encryptionKey), called
\* directly or through migrateMultipleWalletsKeys
MigrateCall(key, delOk) ==
    /\ (IF migCall = None THEN 0 ELSE Len(Val(migCall).keys)) < MaxMigRuns
    /\ LET r == migrateStorageKeys(storage, chromeStore, hasChrome, key, delOk)
           now == [st |-> storage, ch |-> chromeStore]
       IN  /\ storage' = r.st
           /\ chromeStore' = r.ch
           /\ migCall' =
                 IF migCall = None
                 THEN Some([keys |-> <<key>>, delOks |-> <<delOk>>,
                            start |-> now, before |-> now])
                 ELSE Some([keys |-> Append(Val(migCall).keys, key),
                            delOks |-> Append(Val(migCall).delOks, delOk),
                            start |-> Val(migCall).start, before |-> now])
    /\ UNCHANGED <<feedLen, indexer, callError, otherCall, hasChrome, accounts, getMyUtxosPromise, syncs,
                   pending, nclears, lastClear, spentCall, directVars>>

NextMig ==
    \E key \in Keys : \E delOk \in IF hasChrome THEN BOOLEAN ELSE {TRUE} :
        MigrateCall(key, delOk)

SpecMig == InitMig /\ [][NextMig]_vars

(* Direct calls of migrateStorageKeys on storage that holds strings which  *)
(* do not parse.                                                           *)
\* per key, the value of an unparsable string and a well-formed value
BadOffsets == [L |-> {NaN, 50}, H |-> {NaN, 10}, E |-> {NaN, 30}]
BadCaches ==
    [L |-> {BadJson, <<1, 2>>}, H |-> {BadJson, <<3, 1>>}, E |-> {BadJson, <<2, 3>>}]
\* "abc" or "x,7" split at the commas and mapped through Number, and "7"
BadHistories ==
    [L |-> {<<NaN>>, <<7>>}, H |-> {<<NaN, 7>>, <<7>>}, E |-> {<<NaN>>, <<7>>}]

\* the values of one kind when the Current key of some call holds one
BadKindStores(opts) ==
    {x \in KindStores(opts) : IsSome(x["H"]) \/ IsSome(x["E"])}

BadStores ==
    {[kd \in Kinds |-> IF kd = "fetch_offset" THEN o
                       ELSE IF kd = "encrypted_outputs" THEN c ELSE h] :
        o \in BadKindStores(BadOffsets), c \in BadKindStores(BadCaches),
        h \in BadKindStores(BadHistories)}

InitBad ==
    /\ feedLen = 0
    /\ indexer = ObjectForm
    /\ storage \in BadStores
    /\ chromeStore = EmptyStore
    /\ hasChrome \in BOOLEAN
    /\ accounts = {}
    /\ getMyUtxosPromise = 0
    /\ syncs = <<>>
    /\ pending = None
    /\ nclears = 0
    /\ lastClear = None
    /\ spentCall = None
    /\ migCall = None
    /\ callError = None
    /\ otherCall = None
    /\ DirectInit

SpecBad == InitBad /\ [][NextMig]_vars

(* An awaiting client on a feed with more notes than the recent-activity    *)
(* list holds.                                                             *)
\* storage of a wallet that an earlier release synchronized up to the last
\* page and that a later release started to synchronize without session key
HistStore ==
    [EmptyStore EXCEPT
        !["fetch_offset"]["L"] = Some(HistFeedLen - PageSize),
        !["encrypted_outputs"]["L"] = Some(<<1, 3>>),
        !["tradeHistory"]["L"] = Some(DescRange(HistFeedLen - PageSize - 1, 2)),
        !["fetch_offset"]["H"] = Some(PageSize),
        !["encrypted_outputs"]["H"] = Some(<<1>>),
        !["tradeHistory"]["H"] = Some(<<LedgerIndex(1)>>)]

InitHist ==
    /\ feedLen = HistFeedLen
    /\ indexer = ObjectForm
    /\ storage \in {EmptyStore, HistStore}
    /\ chromeStore = EmptyStore
    /\ hasChrome \in BOOLEAN
    /\ accounts = {}
    /\ getMyUtxosPromise = 0
    /\ syncs = <<>>
    /\ pending = None
    /\ nclears = 0
    /\ lastClear = None
    /\ spentCall = None
    /\ migCall = None
    /\ callError = None
    /\ otherCall = None
    /\ DirectInit

CallHist(key) ==
    /\ Len(syncs) < MaxHistSyncs
    /\ CallSeq(key)

NextHist ==
    \/ \E key \in Keys : CallHist(key)
    \/ \E s \in SyncIds : Migrate(s)
    \/ \E s \in SyncIds : StartPage(s)
    \/ \E s \in SyncIds : FetchFail(s)
    \/ \E s \in SyncIds : IndexFail(s)
    \/ \E s \in SyncIds : FetchOk(s)
    \/ \E s \in SyncIds : SpentRetry(s)
    \/ \E s \in SyncIds : SpentOk(s)
    \/ \E s \in SyncIds : Finalize(s)
    \/ \E key \in Keys : clearCacheSeq(key)

SpecHist == InitHist /\ [][NextHist]_vars

(* An awaiting client against an indexer that answers in either form and   *)
(* may serve items without ciphertext.                                     *)
\* the blank positions tried: none, the first item, the first of page two
BlankSets == {{}, {1}, {PageSize + 1}}
Indexers == {[arrayForm |-> a, blank |-> b] : a \in BOOLEAN, b \in BlankSets}

InitForm ==
    /\ feedLen \in {0, FeedLen - 1, FeedLen}
    /\ indexer \in {x \in Indexers : x.blank \subseteq 1..feedLen}
    /\ storage \in IF feedLen = 0 THEN {EmptyStore}
                   ELSE {EmptyStore, LegacyStore, HashedStore}
    /\ chromeStore = EmptyStore
    /\ hasChrome \in BOOLEAN
    /\ accounts = {}
    /\ getMyUtxosPromise = 0
    /\ syncs = <<>>
    /\ pending = None
    /\ nclears = 0
    /\ lastClear = None
    /\ spentCall = None
    /\ migCall = None
    /\ callError = None
    /\ otherCall = None
    /\ DirectInit

SpecForm == InitForm /\ [][NextHist]_vars

(* Direct calls of decrypt_outputs on any list of ciphertexts and any       *)
(* answer of the index resolver.                                           *)
\* the index a note carries when decryptUtxo returns it
PlaceholderIndex == 0
\* elements of j.indices: a number, or None for a value that is no number
IndexValues == {Some(0), Some(7), None}
\* the parsed answer of POST /utxos/indices
IndexAnswers ==
    {[isArray |-> FALSE, indices |-> <<>>]}
        \cup {[isArray |-> TRUE, indices |-> q] :
                 q \in UNION {[1..k -> IndexValues] : k \in 0..MaxBatch}}
DecryptInputs ==
    UNION {[1..k -> Ciphertexts \cup {NoCiphertext}] : k \in 0..MaxBatch}

\* variant of the index update that leaves every note its own index
DecryptRes_KeepsIndex(encryptedOutputs, j) ==
    LET results == SelectSeq(encryptedOutputs, Decrypted)
    IN  IF results = <<>> THEN [threw |-> FALSE, posted |-> FALSE, results |-> <<>>]
        ELSE IF ~j.isArray \/ Len(j.indices) # Len(results)
             THEN [threw |-> TRUE, posted |-> TRUE, results |-> <<>>]
        ELSE [threw |-> FALSE, posted |-> TRUE,
              results |-> [i \in 1..Len(results) |->
                  [encryptedOutput |-> results[i], index |-> PlaceholderIndex]]]

\* variant of decrypt_outputs whose loop ends at the first item that is empty
\* or does not decrypt
DecryptRes_StopsAtFailure(encryptedOutputs, j) ==
    LET failures == {i \in 1..Len(encryptedOutputs) : ~Decrypted(encryptedOutputs[i])}
        results == IF failures = {} THEN encryptedOutputs
                   ELSE SubSeq(encryptedOutputs, 1,
                               (CHOOSE i \in failures :
                                   \A k \in failures : i <= k) - 1)
    IN  IF results = <<>> THEN [threw |-> FALSE, posted |-> FALSE, results |-> <<>>]
        ELSE IF ~j.isArray \/ Len(j.indices) # Len(results)
             THEN [threw |-> TRUE, posted |-> TRUE, results |-> <<>>]
        ELSE [threw |-> FALSE, posted |-> TRUE,
              results |-> [i \in 1..Len(results) |->
                  [encryptedOutput |-> results[i],
                   index |-> IF Some(PlaceholderIndex) # j.indices[i]
                                  /\ IsSome(j.indices[i])
                             THEN Val(j.indices[i])
                             ELSE PlaceholderIndex]]]

\* variant of decrypt_outputs without the test of the answer's length
DecryptRes_AnyLength(encryptedOutputs, j) ==
    LET results == SelectSeq(encryptedOutputs, Decrypted)
    IN  IF results = <<>> THEN [threw |-> FALSE, posted |-> FALSE, results |-> <<>>]
        ELSE IF ~j.isArray
             THEN [threw |-> TRUE, posted |-> TRUE, results |-> <<>>]
        ELSE [threw |-> FALSE, posted |-> TRUE,
              results |-> [i \in 1..Len(results) |->
                  [encryptedOutput |-> results[i],
                   index |-> IF i <= Len(j.indices)
                                  /\ Some(PlaceholderIndex) # j.indices[i]
                                  /\ IsSome(j.indices[i])
                             THEN Val(j.indices[i])
                             ELSE PlaceholderIndex]]]

\* decrypt_outputs with the index update: the DecryptRes[] returned, or the
\* error 'failed fetching /utxos/indices'; posted tells whether
\* POST /utxos/indices was sent
DecryptRes(encryptedOutputs, j) ==
    LET results == SelectSeq(encryptedOutputs, Decrypted)
    IN  IF results = <<>> THEN [threw |-> FALSE, posted |-> FALSE, results |-> <<>>]
        ELSE IF ~j.isArray \/ Len(j.indices) # Len(results)
             THEN [threw |-> TRUE, posted |-> TRUE, results |-> <<>>]
        ELSE [threw |-> FALSE, posted |-> TRUE,
              results |-> [i \in 1..Len(results) |->
                  [encryptedOutput |-> results[i],
                   index |-> IF Some(PlaceholderIndex) # j.indices[i]
                                  /\ IsSome(j.indices[i])
                             THEN Val(j.indices[i])
                             ELSE PlaceholderIndex]]]

InitDecrypt ==
    /\ feedLen = FeedLen
    /\ indexer = ObjectForm
    /\ storage = EmptyStore
    /\ chromeStore = EmptyStore
    /\ hasChrome = FALSE
    /\ accounts = {}
    /\ getMyUtxosPromise = 0
    /\ syncs = <<>>
    /\ pending = None
    /\ nclears = 0
    /\ lastClear = None
    /\ spentCall = None
    /\ migCall = None
    /\ callError = None
    /\ otherCall = None
    /\ DirectInit

\* decrypt_outputs(encryptedOutputs, ...) called; the resolver answers j
CallDecryptOutputs(encryptedOutputs, j) ==
    /\ decryptCall = None
    /\ decryptCall' = Some([encryptedOutputs |-> encryptedOutputs, j |-> j,
                            out |-> DecryptRes(encryptedOutputs, j)])
    /\ UNCHANGED <<feedLen, indexer, callError, otherCall, storage, chromeStore, hasChrome, accounts,
                   getMyUtxosPromise, syncs, pending, nclears, lastClear, spentCall, migCall,
                   publicKeyHashCache, publicKeyEncryptionCache, suffixes,
                   balanceCall>>

NextDecrypt ==
    \E encryptedOutputs \in DecryptInputs, j \in IndexAnswers :
        CallDecryptOutputs(encryptedOutputs, j)

SpecDecrypt == InitDecrypt /\ [][NextDecrypt]_vars

(* Synchronizations of a client that awaits each call, with the answers of *)
(* the index resolver made explicit.                                       *)
MaxResolveSyncs == 2

\* the answers of POST /utxos/indices to the ciphertexts sent: the indices of
\* their notes, the same with the last one missing or with one too many, or
\* an answer without indices array
ResolverAnswers(encryptedOutputs) ==
    LET sent == decrypt_outputs(encryptedOutputs)
        indices == [i \in 1..Len(sent) |-> Some(LedgerIndex(sent[i]))]
    IN  IF sent = <<>> THEN {[isArray |-> FALSE, indices |-> <<>>]}
        ELSE {[isArray |-> TRUE, indices |-> indices],
              [isArray |-> TRUE, indices |-> SubSeq(indices, 1, Len(sent) - 1)],
              [isArray |-> TRUE, indices |-> Append(indices, Some(0))],
              [isArray |-> FALSE, indices |-> <<>>]}

\* fetchUserUtxos answers or throws: decrypt_outputs is called on the page,
\* and on the cached ciphertexts when the page reports no more data; an error
\* of either call leaves fetchUserUtxos and the try block of getUtxos.
\* decryptCall records the last of these calls.
FetchResolved(s) ==
    /\ syncs[s].pc = "fetch"
    /\ LET start == syncs[s].fetch_utxo_offset
           encryptedOutputs == RangeItems(feedLen, start)
           cachedString == getItem(storage, "encrypted_outputs",
                                   localstorageKey(syncs[s].key))
           cachedEncryptedOutputs ==
               IF ~RangeHasMore(feedLen, start) /\ IsSome(cachedString)
               THEN Val(cachedString) ELSE <<>>
       IN  \E j1 \in ResolverAnswers(encryptedOutputs),
              j2 \in ResolverAnswers(cachedEncryptedOutputs) :
              LET batchRes == [encryptedOutputs |-> encryptedOutputs, j |-> j1,
                               out |-> DecryptRes(encryptedOutputs, j1)]
                  cachedRes == [encryptedOutputs |-> cachedEncryptedOutputs, j |-> j2,
                                out |-> DecryptRes(cachedEncryptedOutputs, j2)]
                  last == IF batchRes.out.threw \/ cachedEncryptedOutputs = <<>>
                          THEN batchRes ELSE cachedRes
              IN  /\ decryptCall' = Some(last)
                  /\ IF last.out.threw
                     THEN /\ syncs' = [syncs EXCEPT ![s].pc = "failed"]
                          /\ getMyUtxosPromise' = 0
                          /\ storage' = storage
                     ELSE FetchPage(s)
    /\ UNCHANGED <<feedLen, indexer, callError, otherCall, chromeStore, hasChrome, accounts, pending, nclears,
                   lastClear, spentCall, migCall, publicKeyHashCache,
                   publicKeyEncryptionCache, suffixes, balanceCall>>

CallResolve(key) ==
    /\ Len(syncs) < MaxResolveSyncs
    /\ CallSeq(key)

NextResolve ==
    \/ \E key \in Keys : CallResolve(key)
    \/ \E s \in SyncIds : Migrate(s)
    \/ \E s \in SyncIds : StartPage(s)
    \/ \E s \in SyncIds : FetchFail(s)
    \/ \E s \in SyncIds : FetchResolved(s)
    \/ \E s \in SyncIds : SpentRetry(s)
    \/ \E s \in SyncIds : SpentOk(s)
    \/ \E s \in SyncIds : Finalize(s)
    \/ LedgerStep

SpecResolve == Init /\ [][NextResolve]_vars

(* Direct calls of localstorageKey for two wallets and several session     *)
(* keys, across process restarts.                                          *)
Wallets == {"w1", "w2"}
\* a session key that atob or importKey rejects
BadKey == "bad"
SessionKeys == {NoKey, "k", "k2", BadKey}

\* crypto.subtle.digest('SHA-256', bytes): a function of the bytes
Sha256(bytes) == <<"sha256", bytes>>
\* AES-GCM under a key and an IV: a function of key, IV and plaintext
AesGcm(k, iv, data) == <<"aes-gcm", k, iv, data>>
\* btoa(...) with the three replacements: an injective text form of a byte
\* string, given here by the parts the bytes were put together from
Base64Url(parts) == parts
\* PROGRAM_ID.toString().substring(0, 6)
contractPrefix == "prefix"

\* the value stored under a key of a memo table (a set of key-value pairs)
MemoGet(memo, cacheKey) == (CHOOSE e \in memo : e[1] = cacheKey)[2]
MemoHas(memo, cacheKey) == \E e \in memo : e[1] = cacheKey
MemoSet(memo, cacheKey, v) ==
    {e \in memo : e[1] # cacheKey} \cup {<<cacheKey, v>>}

\* variant of encryptStorageKeyName that encrypts under any key given
encryptStorageKeyName_NeverThrows(publicKeyString, encryptionKey) ==
    LET iv == Sha256(publicKeyString)
    IN  [threw |-> FALSE,
         v |-> Base64Url(<<iv, AesGcm(encryptionKey, iv, publicKeyString)>>)]

\* encryptStorageKeyName: [IV][encrypted data], IV from the hash of the
\* public key; a key that cannot be decoded throws
encryptStorageKeyName(publicKeyString, encryptionKey) ==
    IF encryptionKey = BadKey THEN [threw |-> TRUE, v |-> <<>>]
    ELSE LET iv == Sha256(publicKeyString)
         IN  [threw |-> FALSE,
              v |-> Base64Url(<<iv, AesGcm(encryptionKey, iv, publicKeyString)>>)]

\* variant of the memo key that leaves the session key out
cacheKey_WalletOnly(keyString, encryptionKey) == <<keyString>>

\* `${keyString}:${encryptionKey}`
cacheKey(keyString, encryptionKey) == <<keyString, encryptionKey>>

\* outcome of localstorageKey(key, encryptionKey) on the memo tables given:
\* the suffix returned (or the throw), how it was obtained, the tables after
localstorageKeyCall(hashCache, encCache, w, k) ==
    IF k # NoKey
    THEN IF MemoHas(encCache, cacheKey(w, k))
         THEN [threw |-> FALSE, how |-> "memo",
               suffix |-> <<contractPrefix, MemoGet(encCache, cacheKey(w, k))>>,
               hashCache |-> hashCache, encCache |-> encCache]
         ELSE LET encryptedKey == encryptStorageKeyName(w, k)
              IN  IF encryptedKey.threw
                  THEN [threw |-> TRUE, how |-> "fresh", suffix |-> <<>>,
                        hashCache |-> hashCache, encCache |-> encCache]
                  ELSE [threw |-> FALSE, how |-> "fresh",
                        suffix |-> <<contractPrefix, encryptedKey.v>>,
                        hashCache |-> hashCache,
                        encCache |-> MemoSet(encCache, cacheKey(w, k),
                                             encryptedKey.v)]
    ELSE IF MemoHas(hashCache, w)
         THEN [threw |-> FALSE, how |-> "memo",
               suffix |-> <<contractPrefix, MemoGet(hashCache, w)>>,
               hashCache |-> hashCache, encCache |-> encCache]
         ELSE [threw |-> FALSE, how |-> "fresh",
               suffix |-> <<contractPrefix, Base64Url(<<Sha256(w)>>)>>,
               hashCache |-> MemoSet(hashCache, w, Base64Url(<<Sha256(w)>>)),
               encCache |-> encCache]

InitKey ==
    /\ feedLen = FeedLen
    /\ indexer = ObjectForm
    /\ storage = EmptyStore
    /\ chromeStore = EmptyStore
    /\ hasChrome = FALSE
    /\ accounts = {}
    /\ getMyUtxosPromise = 0
    /\ syncs = <<>>
    /\ pending = None
    /\ nclears = 0
    /\ lastClear = None
    /\ spentCall = None
    /\ migCall = None
    /\ callError = None
    /\ otherCall = None
    /\ DirectInit

\* await localstorageKey(key, encryptionKey)
CallLocalstorageKey(w, k) ==
    /\ Len(suffixes.calls) < MaxKeyCalls
    /\ LET r == localstorageKeyCall(publicKeyHashCache,
                                    publicKeyEncryptionCache, w, k)
       IN  /\ publicKeyHashCache' = r.hashCache
           /\ publicKeyEncryptionCache' = r.encCache
           /\ suffixes' = [suffixes EXCEPT !.calls = Append(@,
                    [w |-> w, k |-> k, boot |-> suffixes.boot, how |-> r.how,
                     threw |-> r.threw, suffix |-> r.suffix])]
    /\ UNCHANGED <<feedLen, indexer, callError, otherCall, storage, chromeStore, hasChrome, accounts,
                   getMyUtxosPromise, syncs, pending, nclears, lastClear, spentCall, migCall,
                   decryptCall, balanceCall>>

\* the process ends and the module is loaded again: both Maps start empty
Restart ==
    /\ suffixes.boot < MaxRestarts
    /\ publicKeyHashCache' = {}
    /\ publicKeyEncryptionCache' = {}
    /\ suffixes' = [suffixes EXCEPT !.boot = @ + 1]
    /\ UNCHANGED <<feedLen, indexer, callError, otherCall, storage, chromeStore, hasChrome, accounts,
                   getMyUtxosPromise, syncs, pending, nclears, lastClear, spentCall, migCall,
                   decryptCall, balanceCall>>

NextKey ==
    \/ \E w \in Wallets, k \in SessionKeys : CallLocalstorageKey(w, k)
    \/ Restart

SpecKey == InitKey /\ [][NextKey]_vars

(* getUtxos calls whose session key may be one that cannot be decoded.      *)
KeysOrBad == Keys \cup {BadKey}

\* localstorageKey(publicKey, key) throws 'Failed to encrypt storage key name'
SuffixThrows(key) == key # NoKey /\ encryptStorageKeyName("w1", key).threw

\* await migrateStorageKeys(...): the suffix of the Current generation is
\* derived before any key is read; an error leaves the try block
MigrateOrThrow(s) ==
    IF SuffixThrows(syncs[s].key)
    THEN /\ syncs[s].pc = "migrate"
         /\ Fail(s)
    ELSE Migrate(s)

\* the pre-check after its awaits; the second await throws when the suffix
\* cannot be derived, and getUtxos rejects before it looks at the handle
CallResumeOrThrow ==
    IF pending # None /\ SuffixThrows(Val(pending))
    THEN /\ callError' = pending
         /\ pending' = None
         /\ UNCHANGED <<feedLen, indexer, otherCall, storage, chromeStore, hasChrome,
                        accounts, getMyUtxosPromise, syncs, nclears, lastClear,
                        spentCall, migCall, directVars>>
    ELSE CallResume

NextBadKey ==
    \/ \E key \in KeysOrBad : CallStart(key)
    \/ CallAttach
    \/ \E key \in KeysOrBad : CallPrecheck(key)
    \/ CallResumeOrThrow
    \/ \E s \in SyncIds : MigrateOrThrow(s)
    \/ \E s \in SyncIds : StartPage(s)
    \/ \E s \in SyncIds : FetchFail(s)
    \/ \E s \in SyncIds : FetchOk(s)
    \/ \E s \in SyncIds : SpentOk(s)
    \/ \E s \in SyncIds : Finalize(s)

SpecBadKey == Init /\ [][NextBadKey]_vars

(* One getUtxos call for a second wallet while the first wallet's           *)
(* synchronizations run. The synchronization that call may start is not   *)
(* followed.                                                               *)
\* the handle of a synchronization started for the second wallet
OtherSync == 0 - 1

\* what the adapter may hold under the second wallet's keys: nothing, what a
\* synchronization without session key left, or that and an Encrypted cache
OtherStores ==
    {EmptyStore, HashedStore,
     [HashedStore EXCEPT !["encrypted_outputs"]["E"] = Some(<<>>)]}

\* variant of the second wallet's pre-check that never discards the handle
OtherResume_KeepsHandle ==
    /\ otherCall # None
    /\ Val(otherCall).pc = "precheck"
    /\ LET h == IF getMyUtxosPromise = 0 THEN OtherSync ELSE getMyUtxosPromise
       IN  /\ getMyUtxosPromise' = h
           /\ otherCall' = Some([Val(otherCall) EXCEPT !.pc = "returned",
                                                       !.returned = h])
    /\ UNCHANGED <<feedLen, indexer, callError, storage, chromeStore, hasChrome,
                   accounts, syncs, pending, nclears, lastClear, spentCall, migCall,
                   directVars>>

\* getUtxos for the second wallet finds a handle: without session key it
\* returns the handle, with one it suspends on localstorageKey
CallOther(key, st) ==
    /\ otherCall = None
    /\ getMyUtxosPromise # 0
    /\ otherCall' = Some([key |-> key, st |-> st,
                          handleAtCall |-> getMyUtxosPromise,
                          pc |-> IF key # NoKey THEN "precheck" ELSE "returned",
                          returned |-> IF key # NoKey THEN 0 ELSE getMyUtxosPromise])
    /\ UNCHANGED <<feedLen, indexer, callError, storage, chromeStore, hasChrome,
                   accounts, getMyUtxosPromise, syncs, pending, nclears, lastClear,
                   spentCall, migCall, directVars>>

\* the second wallet's pre-check after its awaits: the handle is discarded
\* when that wallet has hashed data without encrypted counterpart; then a
\* synchronization is created if there is no handle, else the handle returned
OtherResume ==
    /\ otherCall # None
    /\ Val(otherCall).pc = "precheck"
    /\ LET c == Val(otherCall)
           h == IF getMyUtxosPromise = 0 \/ PrecheckDiscards(c.st, c.key)
                THEN OtherSync ELSE getMyUtxosPromise
       IN  /\ getMyUtxosPromise' = h
           /\ otherCall' = Some([c EXCEPT !.pc = "returned", !.returned = h])
    /\ UNCHANGED <<feedLen, indexer, callError, storage, chromeStore, hasChrome,
                   accounts, syncs, pending, nclears, lastClear, spentCall, migCall,
                   directVars>>

NextWallets ==
    \/ \E key \in Keys : CallStart(key)
    \/ CallAttach
    \/ \E key \in Keys : CallPrecheck(key)
    \/ CallResume
    \/ \E key \in Keys, st \in OtherStores : CallOther(key, st)
    \/ OtherResume
    \/ \E s \in SyncIds : Migrate(s)
    \/ \E s \in SyncIds : StartPage(s)
    \/ \E s \in SyncIds : FetchFail(s)
    \/ \E s \in SyncIds : FetchOk(s)
    \/ \E s \in SyncIds : SpentOk(s)
    \/ \E s \in SyncIds : Finalize(s)

SpecWallets == Init /\ [][NextWallets]_vars

(* Synchronizations whose awaits all complete: every request is answered   *)
(* or fails, and the spent check is answered after finitely many retries.  *)
NextLive ==
    \/ \E key \in Keys : CallStart(key)
    \/ CallAttach
    \/ \E key \in Keys : CallPrecheck(key)
    \/ CallResume
    \/ \E s \in SyncIds : Migrate(s)
    \/ \E s \in SyncIds : StartPage(s)
    \/ \E s \in SyncIds : FetchFail(s)
    \/ \E s \in SyncIds : IndexFail(s)
    \/ \E s \in SyncIds : FetchOk(s)
    \/ \E s \in SyncIds : SpentRetry(s)
    \/ \E s \in SyncIds : SpentOk(s)
    \/ \E s \in SyncIds : Finalize(s)

\* the continuation of each await of synchronization s runs once the awaited
\* promise has settled. The first conjunct is WF_vars(Migrate(s)) written
\* with the enabling condition of Migrate(s), which every Migrate(s) step ends
Continues(s) ==
    /\ []<>~(s \in SyncIds /\ syncs[s].pc = "migrate")
    /\ WF_vars(s \in SyncIds /\ StartPage(s))
    /\ WF_vars(s \in SyncIds /\ (FetchOk(s) \/ FetchFail(s) \/ IndexFail(s)))
    /\ WF_vars(s \in SyncIds /\ SpentOk(s))
    /\ WF_vars(s \in SyncIds /\ Finalize(s))

SpecLive == Init /\ [][NextLive]_vars /\ \A s \in 1..MaxSyncs : Continues(s)

(* Direct calls of getBalanceFromUtxos on any list of notes.               *)
\* amounts a note may carry: nothing, one lamport, half the range of
\* toNumber and all of it
BalanceAmounts == {0, 1, 2 ^ (NumberBits - 1), 2 ^ NumberBits - 1}
BalanceNotes == {[amount |-> a] : a \in BalanceAmounts}
BalanceInputs == UNION {[1..k -> BalanceNotes] : k \in 0..MaxBatch}

\* utxos.reduce((sum, utxo) => sum.add(utxo.amount), new BN(0)), from note i
RECURSIVE SumAmounts(_, _)
SumAmounts(utxos, i) ==
    IF i > Len(utxos) THEN 0
    ELSE utxos[i].amount + SumAmounts(utxos, i + 1)

\* variant of toNumber that drops the bits above the range
BNtoNumber_Wraps(n) == [threw |-> FALSE, v |-> n % (2 ^ NumberBits)]

\* BN.toNumber(): throws 'Number can only safely store up to 53 bits' for a
\* value outside the range
BNtoNumber(n) ==
    IF n < 2 ^ NumberBits THEN [threw |-> FALSE, v |-> n]
    ELSE [threw |-> TRUE, v |-> 0]

\* getBalanceFromUtxos(utxos): the object returned (or the throw) and the
\* notes as the call leaves them
getBalanceFromUtxos(utxos) ==
    LET totalBalance == SumAmounts(utxos, 1)
        n == BNtoNumber(totalBalance)
    IN  [threw |-> n.threw, lamports |-> n.v, utxos |-> utxos]

InitBalance ==
    /\ feedLen = FeedLen
    /\ indexer = ObjectForm
    /\ storage \in {EmptyStore, LegacyStore, HashedStore}
    /\ chromeStore = EmptyStore
    /\ hasChrome = FALSE
    /\ accounts = {}
    /\ getMyUtxosPromise = 0
    /\ syncs = <<>>
    /\ pending = None
    /\ nclears = 0
    /\ lastClear = None
    /\ spentCall = None
    /\ migCall = None
    /\ callError = None
    /\ otherCall = None
    /\ DirectInit

\* getBalanceFromUtxos(utxos) called
CallGetBalanceFromUtxos(utxos) ==
    /\ balanceCall = None
    /\ balanceCall' = Some([utxos |-> utxos, out |-> getBalanceFromUtxos(utxos)])
    /\ UNCHANGED <<feedLen, indexer, callError, otherCall, storage, chromeStore, hasChrome, accounts,
                   getMyUtxosPromise, syncs, pending, nclears, lastClear,
                   spentCall, migCall, publicKeyHashCache,
                   publicKeyEncryptionCache, suffixes, decryptCall>>

NextBalance == \E utxos \in BalanceInputs : CallGetBalanceFromUtxos(utxos)

SpecBalance == InitBalance /\ [][NextBalance]_vars

(* Direct calls of the two spent checks, on any set of marker accounts.    *)
BatchesOf(n) == UNION {[1..k -> Ciphertexts] : k \in 0..n}

InitSpent ==
    /\ feedLen = FeedLen
    /\ indexer = ObjectForm
    /\ storage = EmptyStore
    /\ chromeStore = EmptyStore
    /\ hasChrome = FALSE
    /\ accounts \in SUBSET Markers
    /\ getMyUtxosPromise = 0
    /\ syncs = <<>>
    /\ pending = None
    /\ nclears = 0
    /\ lastClear = None
    /\ spentCall = None
    /\ migCall = None
    /\ callError = None
    /\ otherCall = None
    /\ DirectInit

\* areUtxosSpent(connection, utxos) called and answered
CallAreUtxosSpent(utxos) ==
    /\ spentCall = None
    /\ spentCall' = Some([fn |-> "areUtxosSpent", utxos |-> utxos,
                          status |-> "returned", retries |-> 0,
                          answer |-> areUtxosSpent(accounts, utxos)])
    /\ UNCHANGED <<feedLen, indexer, callError, otherCall, storage, chromeStore, hasChrome, accounts,
                   getMyUtxosPromise, syncs, pending, nclears, lastClear, migCall, directVars>>

\* isUtxoSpent(connection, utxo) called and answered
CallIsUtxoSpent(utxo) ==
    /\ spentCall = None
    /\ spentCall' = Some([fn |-> "isUtxoSpent", utxos |-> <<utxo>>,
                          status |-> "returned", retries |-> 0,
                          answer |-> <<isUtxoSpent(accounts, utxo)>>])
    /\ UNCHANGED <<feedLen, indexer, callError, otherCall, storage, chromeStore, hasChrome, accounts,
                   getMyUtxosPromise, syncs, pending, nclears, lastClear, migCall, directVars>>

SpentFns == {"areUtxosSpent", "isUtxoSpent"}
SpentArgs(fn) ==
    IF fn = "areUtxosSpent" THEN BatchesOf(MaxBatch) \ {<<>>}
    ELSE {<<c>> : c \in Ciphertexts}

\* the first attempt of a call throws inside its try block (getNullifier,
\* getAccountInfo or getMultipleAccountsInfo): the catch block waits 3 s and
\* calls the function again with the same arguments
CallSpentError(fn, utxos) ==
    /\ spentCall = None
    /\ spentCall' = Some([fn |-> fn, utxos |-> utxos, status |-> "retrying",
                          retries |-> 0, answer |-> <<>>])
    /\ UNCHANGED <<feedLen, indexer, callError, otherCall, storage, chromeStore, hasChrome, accounts,
                   getMyUtxosPromise, syncs, pending, nclears, lastClear, migCall, directVars>>

\* variant of the catch block that rethrows the error to the caller
RetryErrors_Throws ==
    /\ IsSome(spentCall)
    /\ Val(spentCall).status = "retrying"
    /\ spentCall' = Some([Val(spentCall) EXCEPT !.status = "threw"])
    /\ UNCHANGED <<feedLen, indexer, callError, otherCall, storage, chromeStore, hasChrome, accounts,
                   getMyUtxosPromise, syncs, pending, nclears, lastClear, migCall, directVars>>

\* the repeated attempt throws as well: catch, wait, call again
RetryErrors ==
    /\ IsSome(spentCall)
    /\ Val(spentCall).status = "retrying"
    /\ Val(spentCall).retries < MaxRetries
    /\ spentCall' = Some([Val(spentCall) EXCEPT !.retries = @ + 1])
    /\ UNCHANGED <<feedLen, indexer, callError, otherCall, storage, chromeStore, hasChrome, accounts,
                   getMyUtxosPromise, syncs, pending, nclears, lastClear, migCall, directVars>>

\* the repeated attempt answers; its answer is returned through every
\* enclosing catch block (return await ...)
RetryAnswers ==
    /\ IsSome(spentCall)
    /\ Val(spentCall).status = "retrying"
    /\ LET call == Val(spentCall)
       IN  spentCall' = Some([call EXCEPT
               !.status = "returned",
               !.answer = IF call.fn = "areUtxosSpent"
                          THEN areUtxosSpent(accounts, call.utxos)
                          ELSE <<isUtxoSpent(accounts, call.utxos[1])>>])
    /\ UNCHANGED <<feedLen, indexer, callError, otherCall, storage, chromeStore, hasChrome, accounts,
                   getMyUtxosPromise, syncs, pending, nclears, lastClear, migCall, directVars>>

NextSpent ==
    \/ \E utxos \in BatchesOf(MaxBatch) : CallAreUtxosSpent(utxos)
    \/ \E utxo \in Ciphertexts : CallIsUtxoSpent(utxo)
    \/ \E fn \in SpentFns : \E utxos \in SpentArgs(fn) : CallSpentError(fn, utxos)
    \/ RetryErrors
    \/ RetryAnswers

SpecSpent == InitSpent /\ [][NextSpent]_vars

(* =============================== claims ================================ *)
Offset(st, g) == getItem(st, "fetch_offset", g)
Cache(st, g) ==
    IF IsSome(getItem(st, "encrypted_outputs", g))
    THEN Range(Val(getItem(st, "encrypted_outputs", g))) ELSE {}
Marked(acc, c) == \E slot \in {0, 1} : PDA(slot, Nullifier(c)) \in acc
Running == {s \in SyncIds : ~Ended(s)}

\* C1: a getUtxos call made while a synchronization has not finished starts
\* no new synchronization, unless the pre-check discards the handle.
C1_SecondCallAttaches ==
    [][(Len(syncs') > Len(syncs) /\ Running # {})
        => (pending # None /\ PrecheckDiscards(storage, Val(pending)))]_vars

\* C2: at every moment at most one synchronization is between its migration
\* step and its final cache write.
C2_AtMostOneSync == Cardinality(Running) <= 1

\* C3: whenever the stored offset covers a page, the unspent ciphertexts of
\* that page are in the persisted ciphertext cache of the same generation.
C3_OffsetBehindCache ==
    \A g \in Gens :
        IsSome(Offset(storage, g)) =>
            \A c \in 1..Min2(Val(Offset(storage, g)), feedLen) :
                (Owned(c) /\ Amount(c) > 0 /\ ~Marked(accounts, c))
                    => c \in Cache(storage, g)

\* C4: without clearCache, the fetch offset stored under a key never
\* decreases.
C4_OffsetMonotone ==
    [][nclears' = 0 =>
        \A g \in Gens :
            (IsSome(Offset(storage, g)) /\ IsSome(Offset(storage', g)))
                => Val(Offset(storage', g)) >= Val(Offset(storage, g))]_vars

AllCache(st) == UNION {Cache(st, g) : g \in Gens}
Finalizing(s) == syncs[s].pc = "final" /\ syncs'[s].pc = "done"

InLoop(sy) == sy.pc \in {"migrate", "page", "fetch", "spent"}

CeilDiv(a, b) == (a + b - 1) \div b
ExpectedOffsets(n) == [i \in 1..CeilDiv(n, PageSize) |-> Min2(i * PageSize, n)]
FullSyncFromZero(sy) == sy.pc \in {"final", "done"} /\ sy.startOffset = 0

\* C7 (as stated): a synchronization that ran from offset 0 to its last page
\* issued ceil(N / PageSize) fetches and persisted PageSize, 2*PageSize, ..., N.
C7_FetchesAndOffsets ==
    \A s \in SyncIds :
        FullSyncFromZero(syncs[s]) =>
            /\ syncs[s].fetches = CeilDiv(feedLen, PageSize)
            /\ syncs[s].persisted = ExpectedOffsets(feedLen)

\* C7 (amended): the same for a feed of N >= 1 items; on an empty feed the
\* synchronization issues one fetch and persists the offset 0.
C7_FetchesAndOffsetsNonEmpty ==
    \A s \in SyncIds :
        FullSyncFromZero(syncs[s]) =>
            IF feedLen = 0
            THEN syncs[s].fetches = 1 /\ syncs[s].persisted = <<0>>
            ELSE /\ syncs[s].fetches = CeilDiv(feedLen, PageSize)
                 /\ syncs[s].persisted = ExpectedOffsets(feedLen)

\* a full synchronization of a feed whose last page is partial
C7_Witness ==
    \E s \in SyncIds :
        /\ syncs[s].pc = "done"
        /\ syncs[s].startOffset = 0
        /\ feedLen % PageSize # 0
        /\ syncs[s].fetches = 2
        /\ syncs[s].persisted = <<PageSize, feedLen>>

Positive(n) == {c \in 1..n : Owned(c) /\ Amount(c) > 0}

\* C8: a synchronization that started at offset 0 with an empty cache and
\* completed returns, once each, exactly the decryptable positive-amount notes
\* of the feed for which its spent check found no marker.
C8_ReturnsExactlyUnspent ==
    \A s \in SyncIds :
        (/\ syncs[s].pc \in {"final", "done"}
         /\ syncs[s].startOffset = 0
         /\ syncs[s].cacheAtStart = <<>>) =>
            /\ Len(syncs[s].valid_utxos) = Cardinality(Range(syncs[s].valid_utxos))
            /\ Range(syncs[s].valid_utxos) = Positive(feedLen) \ syncs[s].spentSeen
            /\ \A c \in syncs[s].spentSeen : Marked(accounts, c)

\* a feed with a spent note, a foreign note and a zero-amount note
C8_Witness ==
    \E s \in SyncIds :
        /\ syncs[s].pc = "done"
        /\ syncs[s].startOffset = 0
        /\ syncs[s].cacheAtStart = <<>>
        /\ feedLen = 4
        /\ syncs[s].spentSeen = {1}
        /\ syncs[s].valid_utxos = <<3>>

Unmarked(c) == ~Marked(accounts, c)

\* C9: the returned list changes only at a spent check, which appends the
\* checked notes that have neither marker account at that moment; every note
\* of the list has a positive amount.
C9_MarkedNeverReturned ==
    [][\A s \in SyncIds :
          syncs'[s].valid_utxos # syncs[s].valid_utxos =>
              /\ syncs[s].pc = "spent"
              /\ syncs'[s].valid_utxos =
                     syncs[s].valid_utxos \o SelectSeq(syncs[s].nonZeroUtxos, Unmarked)
              /\ \A c \in Range(syncs'[s].valid_utxos) : Amount(c) > 0]_vars

\* a note spent through its nullifier1 marker alone was left out of a list
\* that holds another note
C9_Witness ==
    \E s \in SyncIds :
        /\ syncs[s].pc = "done"
        /\ syncs[s].valid_utxos # <<>>
        /\ \E c \in syncs[s].spentSeen :
              /\ PDA(1, Nullifier(c)) \in accounts
              /\ PDA(0, Nullifier(c)) \notin accounts

\* C10: the answer of areUtxosSpent has one flag per note, in input order,
\* flag i being true exactly when a marker account of note i exists, and
\* isUtxoSpent answers the same for each note.
C10_SpentFlagsExact ==
    (IsSome(spentCall) /\ Val(spentCall).status = "returned") =>
        LET call == Val(spentCall)
        IN  /\ Len(call.answer) = Len(call.utxos)
            /\ \A i \in 1..Len(call.utxos) :
                  /\ call.answer[i] = Marked(accounts, call.utxos[i])
                  /\ call.fn = "areUtxosSpent" =>
                        isUtxoSpent(accounts, call.utxos[i]) = call.answer[i]

\* a batch of three notes: the first spent through nullifier1 alone, the
\* second unspent, the third spent through both markers
C10_Witness ==
    /\ IsSome(spentCall)
    /\ Val(spentCall).fn = "areUtxosSpent"
    /\ Len(Val(spentCall).utxos) = 3
    /\ Val(spentCall).answer = <<TRUE, FALSE, TRUE>>
    /\ PDA(0, Nullifier(Val(spentCall).utxos[1])) \notin accounts
    /\ PDA(0, Nullifier(Val(spentCall).utxos[3])) \in accounts
    /\ PDA(1, Nullifier(Val(spentCall).utxos[3])) \in accounts

\* C11: a call of areUtxosSpent or isUtxoSpent never ends with an error: an
\* attempt that throws is followed by another attempt on the same arguments,
\* and the call returns only with the answer of an attempt that succeeded.
C11_SpentCheckNeverFails ==
    [][IsSome(spentCall') =>
        LET after == Val(spentCall')
        IN  /\ after.status \in {"retrying", "returned"}
            /\ after.status = "retrying" => after.answer = <<>>
            /\ after.status = "returned" =>
                  /\ Len(after.answer) = Len(after.utxos)
                  /\ \A i \in 1..Len(after.utxos) :
                        after.answer[i] = Marked(accounts, after.utxos[i])
            /\ IsSome(spentCall) =>
                  /\ Val(spentCall).status = "retrying"
                  /\ after.fn = Val(spentCall).fn
                  /\ after.utxos = Val(spentCall).utxos]_vars

\* a batch call whose first attempt and every allowed retry threw and which
\* then returned an answer with a spent and an unspent note
C11_Witness ==
    /\ IsSome(spentCall)
    /\ Val(spentCall).fn = "areUtxosSpent"
    /\ Val(spentCall).status = "returned"
    /\ Val(spentCall).retries = MaxRetries
    /\ Val(spentCall).retries >= 1
    /\ Len(Val(spentCall).utxos) = 2
    /\ Val(spentCall).answer = <<FALSE, TRUE>>

\* the offset a page loop would read under a session key (absent reads as 0)
OffsetRead(st, key) ==
    LET offsetStr == Offset(st, localstorageKey(key))
    IN  IF IsSome(offsetStr) THEN Val(offsetStr) ELSE 0

\* synchronization s fails on this step while fetching a page
FailsOnPage(s) ==
    /\ s \in SyncIds
    /\ syncs[s].pc = "fetch"
    /\ syncs'[s].pc = "failed"

\* s overlapped no other synchronization, and clearCache was never called
Undisturbed(s) ==
    /\ nclears = 0
    /\ s = Len(syncs)
    /\ s = 1 \/ syncs[s].afterEnd

\* C12 (as stated): when a page fetch or the index resolution fails, the
\* synchronization is rejected, the handle is cleared and the persisted offset
\* is the one the attempt read before fetching the failing page.
C12_OffsetAsBeforePage ==
    [][\A s \in SyncIds : FailsOnPage(s) =>
          /\ getMyUtxosPromise' = 0
          /\ OffsetRead(storage', syncs[s].key) = syncs[s].fetch_utxo_offset]_vars

\* C12 (amended): the failing attempt is rejected, clears the handle and
\* writes nothing, so the persisted offset is what it was just before the
\* failure; it is the offset the attempt read before fetching the failing page
\* (the last one the attempt persisted, if any) whenever the attempt
\* overlapped no other synchronization and clearCache was not called.
C12_FailedPageWritesNothing ==
    [][\A s \in SyncIds : FailsOnPage(s) =>
          /\ getMyUtxosPromise' = 0
          /\ storage' = storage
          /\ chromeStore' = chromeStore
          /\ \A t \in SyncIds \ {s} : syncs'[t] = syncs[t]
          /\ Undisturbed(s) =>
                /\ OffsetRead(storage', syncs[s].key) = syncs[s].fetch_utxo_offset
                /\ syncs[s].persisted # <<>> =>
                      Offset(storage', localstorageKey(syncs[s].key))
                          = Some(syncs[s].persisted[Len(syncs[s].persisted)])]_vars

\* a lone synchronization that persisted a first page and failed on the second
\* one, the offset still being the one persisted after the first page
C12_Witness ==
    /\ Len(syncs) = 1
    /\ nclears = 0
    /\ syncs[1].pc = "failed"
    /\ syncs[1].fetches = 2
    /\ syncs[1].persisted = <<PageSize>>
    /\ Offset(storage, localstorageKey(syncs[1].key)) = Some(PageSize)
    /\ getMyUtxosPromise = 0

\* what a key holds for migrateStorageKeys: the adapter's value, else the one
\* of chrome.storage.local when the chrome API is present
Held(stores, kd, g) ==
    IF IsSome(stores.st[kd][g]) THEN stores.st[kd][g]
    ELSE IF hasChrome THEN stores.ch[kd][g] ELSE None

Stores == [st |-> storage, ch |-> chromeStore]
LastKey == Val(migCall).keys[Len(Val(migCall).keys)]
\* the source keys of the last call: Legacy, and Hashed with a session key
SourceGens == IF LastKey = NoKey THEN {"L"} ELSE {"L", "H"}
CurrentGen == IF LastKey = NoKey THEN "H" ELSE "E"
\* the values the source keys held before the last call
SourceValues(kd) ==
    {Val(Held(Val(migCall).before, kd, g)) :
        g \in {x \in SourceGens : IsSome(Held(Val(migCall).before, kd, x))}}

\* C13: migrateStorageKeys run twice in a row with the same wallet and session
\* key leaves the storage a single run leaves (the adapter as after the first
\* run; chrome.storage.local as after one run whose removal of the old keys
\* succeeded if either removal did).
C13_MigrationIdempotent ==
    (IsSome(migCall) /\ Len(Val(migCall).keys) = 2
        /\ Val(migCall).keys[1] = Val(migCall).keys[2]) =>
        LET call == Val(migCall)
            once == migrateStorageKeys(call.start.st, call.start.ch, hasChrome,
                                       call.keys[1],
                                       call.delOks[1] \/ call.delOks[2])
        IN  /\ storage = call.before.st
            /\ storage = once.st
            /\ chromeStore = once.ch
            /\ \A kd \in Kinds :
                  Held(Stores, kd, CurrentGen) = Held(call.before, kd, CurrentGen)

\* two runs with a session key on a store where every key held a value; the
\* first run changed the adapter and left the old keys in it
C13_Witness ==
    /\ IsSome(migCall)
    /\ Val(migCall).keys = <<"k", "k">>
    /\ hasChrome
    /\ \A kd \in Kinds, g \in Gens : IsSome(Val(migCall).start.st[kd][g])
    /\ storage # Val(migCall).start.st
    /\ getItem(storage, "encrypted_outputs", "E") = Some(<<3, 1, 2>>)
    /\ getItem(storage, "encrypted_outputs", "L") = Some(<<1, 2>>)

\* the largest element of a non-empty set of numbers
MaxOf(S) == CHOOSE x \in S : \A y \in S : y <= x

\* C14: when a source key and the Current key both hold a fetch offset, the
\* Current offset after migration is the maximum of the offsets held.
C14_OffsetIsMaximum ==
    IsSome(migCall) =>
        LET cur == Held(Val(migCall).before, "fetch_offset", CurrentGen)
            srcs == SourceValues("fetch_offset")
        IN  (IsSome(cur) /\ srcs # {}) =>
               Held(Stores, "fetch_offset", CurrentGen)
                   = Some(MaxOf(srcs \cup {Val(cur)}))

\* Legacy 50 and Current 30 gave 50
C14_Witness ==
    /\ IsSome(migCall)
    /\ Len(Val(migCall).keys) = 1
    /\ Held(Val(migCall).before, "fetch_offset", "L") = Some(50)
    /\ Held(Val(migCall).before, "fetch_offset", CurrentGen) = Some(30)
    /\ CurrentGen = "E" => ~IsSome(Held(Val(migCall).before, "fetch_offset", "H"))
    /\ Held(Stores, "fetch_offset", CurrentGen) = Some(50)

\* C15: when a source key and the Current key both hold a ciphertext cache,
\* the Current cache after migration holds exactly the ciphertexts of the
\* caches held, each once.
C15_CacheIsUnion ==
    IsSome(migCall) =>
        LET cur == Held(Val(migCall).before, "encrypted_outputs", CurrentGen)
            srcs == SourceValues("encrypted_outputs")
            after == Held(Stores, "encrypted_outputs", CurrentGen)
        IN  (IsSome(cur) /\ srcs # {}) =>
               /\ IsSome(after)
               /\ Range(Val(after))
                     = Range(Val(cur)) \cup UNION {Range(q) : q \in srcs}
               /\ Cardinality(Range(Val(after))) = Len(Val(after))

\* Legacy [1, 2] and Current [2, 3] gave 1, 2, 3
C15_Witness ==
    /\ IsSome(migCall)
    /\ Len(Val(migCall).keys) = 1
    /\ Held(Val(migCall).before, "encrypted_outputs", "L") = Some(<<1, 2>>)
    /\ Held(Val(migCall).before, "encrypted_outputs", CurrentGen) = Some(<<2, 3>>)
    /\ CurrentGen = "E" => ~IsSome(Held(Val(migCall).before, "encrypted_outputs", "H"))
    /\ Held(Stores, "encrypted_outputs", CurrentGen) = Some(<<1, 2, 3>>)

\* the persisted recent-activity indices under a key suffix
History(st, g) ==
    IF IsSome(getItem(st, "tradeHistory", g))
    THEN Range(Val(getItem(st, "tradeHistory", g))) ELSE {}

\* S holds the n largest elements of Cand (all of them when Cand has fewer)
LargestOf(S, Cand, n) ==
    /\ S \subseteq Cand
    /\ Cardinality(S) = Min2(n, Cardinality(Cand))
    /\ \A x \in S, y \in Cand \ S : x > y

\* C16: the persisted recent-activity list never holds more than 20 indices
\* nor an index twice, and the final write of a successful synchronization
\* leaves exactly the 20 largest of the indices persisted until then and the
\* ledger indices the synchronization recorded.
C16_HistoryTop20 ==
    [][/\ \A g \in Gens :
            LET rec == getItem(storage', "tradeHistory", g)
            IN  IsSome(rec) =>
                   /\ Len(Val(rec)) <= 20
                   /\ Cardinality(Range(Val(rec))) = Len(Val(rec))
       /\ \A s \in SyncIds :
            (syncs[s].pc = "final" /\ syncs'[s].pc = "done") =>
               LET g == IF syncs[s].key = NoKey THEN "H" ELSE "E"
                   cand == History(storage, g) \cup syncs[s].history_indexes
               IN  /\ LargestOf(History(storage', g), cand, 20)
                   /\ cand = {} =>
                         getItem(storage', "tradeHistory", g)
                             = getItem(storage, "tradeHistory", g)
                   /\ \A h \in Gens \ {g} :
                         getItem(storage', "tradeHistory", h)
                             = getItem(storage, "tradeHistory", h)]_vars

\* a synchronization that recorded more than 20 ledger indices has ended, and
\* the persisted list holds 20 of them and lacks the smallest
C16_Witness ==
    \E s \in SyncIds :
        /\ syncs[s].pc = "done"
        /\ Cardinality(syncs[s].history_indexes) > 20
        /\ LET g == IF syncs[s].key = NoKey THEN "H" ELSE "E"
           IN  /\ Cardinality(History(storage, g)) = 20
               /\ History(storage, g) \subseteq syncs[s].history_indexes
               /\ 0 \in syncs[s].history_indexes \ History(storage, g)

\* the positions of the input whose ciphertext decrypts
DecryptedAt(encryptedOutputs) ==
    {i \in 1..Len(encryptedOutputs) :
        encryptedOutputs[i] # 0 /\ encryptedOutputs[i] # 2}
\* the k-th smallest element of a set of positions
Nth(P, k) == CHOOSE i \in P : Cardinality({x \in P : x < i}) = k - 1

\* the notes returned are the decryptable ciphertexts in input order
ReturnedInInputOrder(call) ==
    LET P == DecryptedAt(call.encryptedOutputs)
    IN  /\ Len(call.out.results) = Cardinality(P)
        /\ \A k \in 1..Cardinality(P) :
              call.out.results[k].encryptedOutput
                  = call.encryptedOutputs[Nth(P, k)]

\* C17 (as stated): decrypt_outputs returns the decrypted notes in input
\* order, the index of the i-th being the i-th element of the resolver's
\* answer.
C17_IndexFromResolver ==
    (IsSome(decryptCall) /\ ~Val(decryptCall).out.threw) =>
        LET call == Val(decryptCall)
        IN  /\ ReturnedInInputOrder(call)
            /\ call.out.results # <<>> =>
                  \A i \in 1..Len(call.out.results) :
                      call.j.indices[i] = Some(call.out.results[i].index)

\* C17 (amended): decrypt_outputs returns the decrypted notes in input order;
\* the index of the i-th is the i-th element of the resolver's answer when
\* that element is a number, and the index the note was decrypted with
\* otherwise.
C17_IndexFromResolverIfNumber ==
    (IsSome(decryptCall) /\ ~Val(decryptCall).out.threw) =>
        LET call == Val(decryptCall)
        IN  /\ ReturnedInInputOrder(call)
            /\ call.out.results # <<>> =>
                  \A i \in 1..Len(call.out.results) :
                      call.out.results[i].index
                          = IF call.j.indices[i] = None THEN 0
                            ELSE call.j.indices[i][1]

\* ciphertexts 3, 2 (another wallet's) and 1 were passed; the notes of 3 and
\* 1 came back in that order, the first with index 7 in place of 0
C17_Witness ==
    /\ IsSome(decryptCall)
    /\ Val(decryptCall).encryptedOutputs = <<3, 2, 1>>
    /\ Val(decryptCall).j.indices = <<Some(7), Some(0)>>
    /\ Val(decryptCall).out.results
          = <<[encryptedOutput |-> 3, index |-> 7],
              [encryptedOutput |-> 1, index |-> 0]>>

\* C18: for a fixed wallet and a fixed optional session key every call of
\* localstorageKey has the same outcome, served from a memo table or
\* computed afresh, before or after a restart; with a session key that can be
\* decoded, and without one, that outcome is a suffix.
C18_SuffixStable ==
    \A i, j \in 1..Len(suffixes.calls) :
        LET a == suffixes.calls[i]
            b == suffixes.calls[j]
        IN  /\ (a.w = b.w /\ a.k = b.k) =>
                  (a.threw = b.threw /\ a.suffix = b.suffix)
            /\ a.k # "bad" => (~a.threw /\ a.suffix # <<>>)

\* wallet w1 with session key k: computed, then served from the memo table,
\* then computed again after a restart, the same suffix each time; a call
\* with another session key in between
C18_Witness ==
    /\ Len(suffixes.calls) = 4
    /\ \A i \in {1, 2, 4} :
          /\ suffixes.calls[i].w = "w1"
          /\ suffixes.calls[i].k = "k"
          /\ ~suffixes.calls[i].threw
    /\ suffixes.calls[3].w = "w1" /\ suffixes.calls[3].k = "k2"
    /\ suffixes.calls[1].how = "fresh" /\ suffixes.calls[1].boot = 0
    /\ suffixes.calls[2].how = "memo" /\ suffixes.calls[2].boot = 0
    /\ suffixes.calls[4].how = "fresh" /\ suffixes.calls[4].boot = 1
    /\ suffixes.calls[1].suffix = suffixes.calls[4].suffix
    /\ suffixes.calls[1].suffix = suffixes.calls[2].suffix

\* C19: the synchronization that follows a clearCache made with its session
\* key while nothing was in flight reads offset 0 for its first page and finds
\* no ciphertext cached, neither at its first page nor at its last.
C19_ClearedSyncStartsAtZero ==
    \A s \in SyncIds :
        (syncs[s].afterClear /\ syncs[s].fetches >= 1) =>
            /\ syncs[s].startOffset = 0
            /\ syncs[s].cacheAtStart = <<>>
            /\ syncs[s].cacheRead = {}

\* the sum of the amounts of a set of positions of a list of notes
RECURSIVE SumOver(_, _)
SumOver(utxos, P) ==
    IF P = {} THEN 0
    ELSE LET i == CHOOSE x \in P : TRUE
         IN  utxos[i].amount + SumOver(utxos, P \ {i})

\* C20 (as stated): getBalanceFromUtxos returns the sum of the amounts of the
\* notes passed, 0 for none, and changes neither the notes nor stored state.
C20_BalanceIsSum ==
    [][IsSome(balanceCall') =>
        LET call == Val(balanceCall')
        IN  /\ ~call.out.threw
            /\ call.out.lamports = SumOver(call.utxos, DOMAIN call.utxos)
            /\ call.utxos = <<>> => call.out.lamports = 0
            /\ call.out.utxos = call.utxos
            /\ storage' = storage /\ chromeStore' = chromeStore]_vars

\* C20 (amended): getBalanceFromUtxos returns the sum of the amounts of the
\* notes passed, 0 for none, when that sum is within the range of toNumber,
\* and throws when it is not; it changes neither the notes nor stored state.
C20_BalanceIsSumInRange ==
    [][IsSome(balanceCall') =>
        LET call == Val(balanceCall')
            total == SumOver(call.utxos, DOMAIN call.utxos)
        IN  /\ call.out.threw <=> total >= 2 ^ NumberBits
            /\ ~call.out.threw => call.out.lamports = total
            /\ call.utxos = <<>> => (~call.out.threw /\ call.out.lamports = 0)
            /\ call.out.utxos = call.utxos
            /\ storage' = storage /\ chromeStore' = chromeStore]_vars

\* three notes, one of them empty, whose amounts add up to the largest number
\* in range: the sum is returned and the stored data is as it was
C20_Witness ==
    /\ IsSome(balanceCall)
    /\ Len(Val(balanceCall).utxos) = 3
    /\ \E i \in 1..3 : Val(balanceCall).utxos[i].amount = 0
    /\ ~Val(balanceCall).out.threw
    /\ Val(balanceCall).out.lamports = 2 ^ NumberBits - 1
    /\ Val(balanceCall).out.utxos = Val(balanceCall).utxos
    /\ storage = LegacyStore

\* the number of raw items the indexer returns for the page at start
Served(n, start) == Min2(start + PageSize, n) - Min2(start, n)

\* C21: after each page the persisted offset is the page's start offset plus
\* the number of raw items the indexer returned for it, in both response
\* forms, whatever number of them decrypted.
C21_OffsetCountsRawItems ==
    [][\A s \in SyncIds :
          Len(syncs'[s].persisted) > Len(syncs[s].persisted) =>
              Offset(storage', IF syncs[s].key = NoKey THEN "H" ELSE "E")
                  = Some(syncs[s].fetch_utxo_offset
                         + Served(feedLen, syncs[s].fetch_utxo_offset))]_vars

\* C22: a synchronization leaves its page loop without error only when the
\* offset it persisted last has reached the end of the feed, in both response
\* forms.
C22_FetchesUntilExhausted ==
    \A s \in SyncIds :
        syncs[s].pc \in {"final", "done"} =>
            /\ syncs[s].persisted # <<>>
            /\ syncs[s].persisted[Len(syncs[s].persisted)] >= feedLen

\* the stored string of a kind does not parse
Unparsable(kd, v) ==
    IF kd = "encrypted_outputs" THEN v = <<0 - 1>>
    ELSE IF kd = "tradeHistory" THEN (0 - 1) \in Range(v)
    ELSE v = 0 - 1

\* C23: when the Current key and a source key both hold a value and the
\* Current value or every source value is unparsable, migrateStorageKeys
\* leaves the Current value as it was.
C23_CorruptMergeKeepsCurrent ==
    IsSome(migCall) =>
        \A kd \in Kinds :
            LET cur == Held(Val(migCall).before, kd, CurrentGen)
                srcs == SourceValues(kd)
            IN  (/\ IsSome(cur)
                 /\ srcs # {}
                 /\ Unparsable(kd, Val(cur))
                        \/ \A v \in srcs : Unparsable(kd, v))
                    => Held(Stores, kd, CurrentGen) = cur

\* the outcome of the batch deletion of the last call
LastDelOk == Val(migCall).delOks[Len(Val(migCall).delOks)]

\* C24: after a migrateStorageKeys call whose batch deletion succeeded, the
\* storage adapter holds no value under the Legacy key of any kind, and, when
\* the call had a session key, none under a Hashed key that held a value.
C24_OldKeysUnreadable ==
    (IsSome(migCall) /\ LastDelOk) =>
        \A kd \in Kinds :
            /\ getItem(storage, kd, "L") = None
            /\ (LastKey # NoKey /\ IsSome(Held(Val(migCall).before, kd, "H")))
                  => getItem(storage, kd, "H") = None

\* the last call had a session key and found values under Hashed keys only
HashedOnly ==
    /\ IsSome(migCall)
    /\ LastKey # NoKey
    /\ \A kd \in Kinds :
          /\ Held(Val(migCall).before, kd, "L") = None
          /\ Held(Val(migCall).before, kd, "E") = None
    /\ \E kd \in Kinds : IsSome(Held(Val(migCall).before, kd, "H"))

\* C25: a migrateStorageKeys call with a session key that finds values under
\* Hashed keys and none under Legacy or Encrypted keys leaves each Hashed
\* value, verbatim, under the Encrypted key and no value under the Hashed key.
C25_HashedMovedAndRemoved ==
    HashedOnly =>
        \A kd \in Kinds :
            IsSome(Held(Val(migCall).before, kd, "H")) =>
                /\ Held(Stores, kd, "E") = Held(Val(migCall).before, kd, "H")
                /\ Held(Stores, kd, "H") = None

\* C26: when a source key and the Current key both hold a recent-activity
\* set, the Current set after migration holds, each once, the 20 largest of
\* the indices held (all of them when they are fewer).
C26_HistoryIsTop20OfUnion ==
    IsSome(migCall) =>
        LET cur == Held(Val(migCall).before, "tradeHistory", CurrentGen)
            srcs == SourceValues("tradeHistory")
            after == Held(Stores, "tradeHistory", CurrentGen)
        IN  (IsSome(cur) /\ srcs # {}) =>
               /\ IsSome(after)
               /\ LargestOf(Range(Val(after)),
                            Range(Val(cur)) \cup UNION {Range(q) : q \in srcs},
                            20)
               /\ Cardinality(Range(Val(after))) = Len(Val(after))

\* Legacy 19..4 and Current 24..13 hold 21 indices together: the Current set
\* became 24..5
C26_Witness ==
    /\ IsSome(migCall)
    /\ Len(Val(migCall).keys) = 1
    /\ Held(Val(migCall).before, "tradeHistory", "L") = Some(DescRange(19, 4))
    /\ Held(Val(migCall).before, "tradeHistory", "H") = None
    /\ Held(Val(migCall).before, "tradeHistory", "E") = Some(DescRange(24, 13))
    /\ CurrentGen = "E"
    /\ Held(Stores, "tradeHistory", "E") = Some(DescRange(24, 5))

\* C27 (as stated): every synchronization that has requested a page ran
\* migrateStorageKeys exactly once before, and its first page started at the
\* Current-generation offset that migration left (0 when none); a call that
\* attaches runs no migration.
C27_FirstPageAtMigratedOffset ==
    \A s \in SyncIds :
        /\ syncs[s].pc = "migrate" => (syncs[s].migrations = 0 /\ syncs[s].fetches = 0)
        /\ syncs[s].pc # "migrate" => syncs[s].migrations = 1
        /\ syncs[s].fetches >= 1 => syncs[s].startOffset = syncs[s].offsetAfterMig

\* the synchronization a step migrates, if any
Migrating(s) == syncs[s].pc = "migrate" /\ syncs'[s].pc = "page"

\* C27 (amended): every synchronization runs migrateStorageKeys exactly once,
\* as its first step and before its first page; a call that attaches to an
\* outstanding synchronization changes neither the storage nor any
\* synchronization; the first page starts at the Current-generation offset
\* stored at that moment (0 when none), which is the one the migration left
\* whenever clearCache was not called and no other synchronization was
\* started in between.
C27_MigratesOnceBeforeFirstPage ==
    [][/\ \A s \in SyncIds :
            /\ syncs[s].pc = "migrate" =>
                  (syncs[s].migrations = 0 /\ syncs[s].fetches = 0)
            /\ syncs[s].pc # "migrate" => syncs[s].migrations = 1
            /\ syncs'[s].migrations # syncs[s].migrations => Migrating(s)
            /\ (syncs[s].fetches = 0 /\ syncs'[s].fetches = 1) =>
                  /\ syncs'[s].startOffset
                        = (IF IsSome(Offset(storage, IF syncs[s].key = NoKey
                                                      THEN "H" ELSE "E"))
                           THEN Val(Offset(storage, IF syncs[s].key = NoKey
                                                     THEN "H" ELSE "E"))
                           ELSE 0)
                  /\ Undisturbed(s) =>
                        syncs'[s].startOffset = syncs[s].offsetAfterMig
       /\ (getMyUtxosPromise # 0 /\ Len(syncs') = Len(syncs)
              /\ pending' # pending) =>
            (storage' = storage /\ chromeStore' = chromeStore /\ syncs' = syncs)
       /\ Len(syncs') > Len(syncs) =>
            (storage' = storage /\ chromeStore' = chromeStore)]_vars

\* a lone synchronization whose migration moved the Legacy offset to the
\* Current key and whose first page started there
C27_Witness ==
    /\ Len(syncs) = 1
    /\ nclears = 0
    /\ syncs[1].migrations = 1
    /\ syncs[1].offsetAfterMig = PageSize
    /\ syncs[1].startOffset = PageSize
    /\ syncs[1].fetches >= 1
    /\ syncs[1].cacheAtStart = <<1>>

\* a getUtxos call with session key resumes from its pre-check on this step
Resuming == pending # None /\ pending' = None

\* a ciphertext cache is stored under the Hashed key and none under the
\* Encrypted key
HashedNotEncrypted ==
    /\ IsSome(getItem(storage, "encrypted_outputs", "H"))
    /\ ~IsSome(getItem(storage, "encrypted_outputs", "E"))

\* this step starts a synchronization with the session key of the call
StartsNewSync(key) ==
    /\ Len(syncs') = Len(syncs) + 1
    /\ SubSeq(syncs', 1, Len(syncs)) = syncs
    /\ syncs'[Len(syncs')].key = key
    /\ syncs'[Len(syncs')].pc = "migrate"
    /\ getMyUtxosPromise' = Len(syncs')

\* this step leaves the handle and the synchronizations as they are
Attaches == syncs' = syncs /\ getMyUtxosPromise' = getMyUtxosPromise

\* C28 (as stated): a call with session key made while a handle is
\* outstanding discards the handle and starts a synchronization with the
\* session key when a ciphertext cache exists under the Hashed key and none
\* under the Encrypted key, and attaches to the handle in every other case.
C28_DiscardsOrAttaches ==
    [][Resuming =>
          IF HashedNotEncrypted THEN StartsNewSync(Val(pending)) ELSE Attaches]_vars

\* C28 (amended): the call looks at the storage and at the handle after the
\* awaits of its pre-check; it starts a synchronization with the session key
\* when a ciphertext cache is then stored under the Hashed key and none under
\* the Encrypted key, or when the handle has been cleared in the meantime,
\* and attaches to the handle in every other case; the migration of the
\* synchronization it starts runs with the session key.
C28_DiscardsOrAttachesAfterAwaits ==
    [][/\ Resuming =>
             IF HashedNotEncrypted \/ getMyUtxosPromise = 0
             THEN StartsNewSync(Val(pending)) ELSE Attaches
       /\ \A s \in SyncIds : Migrating(s) =>
             \E delOk \in BOOLEAN :
                /\ storage' = migrateStorageKeys(storage, chromeStore, hasChrome,
                                                 syncs[s].key, delOk).st
                /\ syncs'[s].key = syncs[s].key]_vars

\* the second synchronization was started with the session key while the
\* first, started without one on a Hashed cache, was still in its page loop
C28_Witness ==
    /\ Len(syncs) = 2
    /\ getMyUtxosPromise = 2
    /\ syncs[1].key = NoKey
    /\ syncs[1].pc \in {"page", "fetch", "spent"}
    /\ syncs[2].key = "k"
    /\ syncs[2].pc # "migrate"
    /\ syncs[2].migrations = 1
    /\ IsSome(getItem(storage, "encrypted_outputs", "E"))

\* the recent-activity sets and the ciphertext caches of both stores
HistoryAndCache(st, ch) ==
    <<st["tradeHistory"], st["encrypted_outputs"],
      ch["tradeHistory"], ch["encrypted_outputs"]>>

\* C29: the stored recent-activity set and ciphertext cache change only when
\* a synchronization migrates, when a synchronization that left its page
\* loop without error persists them, or when clearCache is called; a
\* synchronization that fails writes neither on the failing step nor
\* afterwards, and never persists them.
C29_OnlySuccessPersists ==
    [][/\ HistoryAndCache(storage', chromeStore') # HistoryAndCache(storage, chromeStore) =>
            \/ \E s \in SyncIds : Migrating(s)
            \/ \E s \in SyncIds : Finalizing(s)
            \/ nclears' = nclears + 1
       /\ \A s \in SyncIds :
            /\ syncs[s].pc = "failed" => syncs'[s] = syncs[s]
            /\ (syncs[s].pc # "failed" /\ syncs'[s].pc = "failed") =>
                  /\ syncs[s].pc \in {"fetch", "spent"}
                  /\ storage' = storage
                  /\ chromeStore' = chromeStore
            /\ syncs'[s].pc \in {"final", "done"} =>
                  syncs[s].pc \in {"fetch", "spent", "final", "done"}
            /\ (syncs[s].pc = "final" /\ syncs'[s].pc # "final") => Finalizing(s)]_vars

\* a lone synchronization failed on its second page with an unspent note
\* gathered and its first page persisted: no recent-activity set and no
\* ciphertext cache is stored
C29_Witness ==
    /\ Len(syncs) = 1
    /\ nclears = 0
    /\ syncs[1].pc = "failed"
    /\ syncs[1].valid_utxos = <<1>>
    /\ syncs[1].history_indexes = {LedgerIndex(1)}
    /\ syncs[1].persisted = <<PageSize>>
    /\ getItem(storage, "tradeHistory", localstorageKey(syncs[1].key)) = None
    /\ getItem(storage, "encrypted_outputs", localstorageKey(syncs[1].key)) = None

\* the notes synchronization s decrypts from the page at its offset, and from
\* the stored ciphertext cache when the page reports no more data
NotesOfPage(s) ==
    LET start == syncs[s].fetch_utxo_offset
        cachedString == getItem(storage, "encrypted_outputs",
                                IF syncs[s].key = NoKey THEN "H" ELSE "E")
        cached == IF ~RangeHasMore(feedLen, start) /\ IsSome(cachedString)
                  THEN Range(Val(cachedString)) ELSE {}
    IN  {c \in Range(RangeItems(feedLen, start)) \cup cached : Decrypted(c)}

\* C30: when a page arrives, the ledger index of every note decrypted from it
\* is added to the history list whatever its amount, exactly the notes with
\* an amount greater than 0 go to the spent check (none: no spent check), and
\* no note with amount 0 is ever in the list a synchronization returns or in
\* the ciphertext cache it persists.
C30_ZeroAmountRecordedNotKept ==
    [][\A s \in SyncIds :
          /\ (syncs[s].pc = "fetch" /\ syncs'[s].pc \in {"spent", "page", "final"}) =>
                /\ syncs'[s].history_indexes =
                      syncs[s].history_indexes
                         \cup {LedgerIndex(c) : c \in NotesOfPage(s)}
                /\ Range(syncs'[s].nonZeroUtxos) =
                      {c \in NotesOfPage(s) : Amount(c) > 0}
                /\ syncs'[s].pc = "spent" <=>
                      \E c \in NotesOfPage(s) : Amount(c) > 0
          /\ \A c \in syncs'[s].spentSeen \cup Range(syncs'[s].valid_utxos) :
                Amount(c) > 0
          /\ Finalizing(s) =>
                \A c \in Range(Val(getItem(storage', "encrypted_outputs",
                                           IF syncs[s].key = NoKey THEN "H" ELSE "E"))) :
                   Amount(c) > 0]_vars

\* a synchronization over the whole feed ended: the index of the zero-amount
\* note 4 is in its history list and in the stored recent-activity set, the
\* note is neither returned nor cached
C30_Witness ==
    /\ feedLen = FeedLen
    /\ Len(syncs) = 1
    /\ nclears = 0
    /\ syncs[1].pc = "done"
    /\ Amount(4) = 0
    /\ LedgerIndex(4) \in syncs[1].history_indexes
    /\ LedgerIndex(4) \in Range(Val(getItem(storage, "tradeHistory",
                                             localstorageKey(syncs[1].key))))
    /\ syncs[1].valid_utxos = <<1, 3>>
    /\ getItem(storage, "encrypted_outputs", localstorageKey(syncs[1].key))
          = Some(<<1, 3>>)

\* C31: in decrypt_outputs an empty or undecryptable input stops no other
\* input from being processed: a call that returns returns exactly the
\* decryptable inputs, in input order, and a call with no decryptable input
\* returns the empty list without sending the index-resolution request.
C31_FailuresSkippedNotFatal ==
    IsSome(decryptCall) =>
        LET call == Val(decryptCall)
            P == DecryptedAt(call.encryptedOutputs)
        IN  /\ ~call.out.threw => ReturnedInInputOrder(call)
            /\ P = {} => (~call.out.threw /\ call.out.results = <<>>
                             /\ ~call.out.posted)
            /\ P # {} => call.out.posted
            /\ call.out.threw =>
                  (~call.j.isArray \/ Len(call.j.indices) # Cardinality(P))

\* an empty entry, another wallet's ciphertext and ciphertext 3 were passed:
\* the note of 3 came back
C31_Witness ==
    /\ IsSome(decryptCall)
    /\ Val(decryptCall).encryptedOutputs = <<NoCiphertext, 2, 3>>
    /\ ~Val(decryptCall).out.threw
    /\ Val(decryptCall).out.posted
    /\ Len(Val(decryptCall).out.results) = 1
    /\ Val(decryptCall).out.results[1].encryptedOutput = 3

\* the answer of the index resolver to a call has no indices array, or one
\* whose length is not the number of ciphertexts sent
Malformed(call) ==
    /\ DecryptedAt(call.encryptedOutputs) # {}
    /\ \/ ~call.j.isArray
       \/ Len(call.j.indices) # Cardinality(DecryptedAt(call.encryptedOutputs))

\* C32: when the index resolver answers a call of decrypt_outputs without an
\* indices array, or with one whose length differs from the number of
\* decrypted ciphertexts sent, the call throws and returns no note, and the
\* synchronization that made the call fails on that step: it is rejected
\* with what it held, clears the handle and writes nothing.
C32_MalformedIndicesFailSync ==
    [][\A s \in SyncIds :
          (syncs[s].pc = "fetch" /\ syncs'[s].pc # "fetch"
              /\ decryptCall' # None /\ Malformed(Val(decryptCall'))) =>
             /\ Val(decryptCall').out.threw
             /\ Val(decryptCall').out.results = <<>>
             /\ syncs' = [syncs EXCEPT ![s].pc = "failed"]
             /\ getMyUtxosPromise' = 0
             /\ storage' = storage]_vars

\* a synchronization decrypted notes on its second page, the resolver
\* answered with one index too few and the synchronization failed, the
\* offset of its first page persisted
C32_Witness ==
    /\ Len(syncs) = 1
    /\ syncs[1].pc = "failed"
    /\ syncs[1].fetches = 2
    /\ syncs[1].persisted = <<PageSize>>
    /\ IsSome(decryptCall)
    /\ Val(decryptCall).encryptedOutputs = <<3, 4>>
    /\ Val(decryptCall).j = [isArray |-> TRUE, indices |-> <<Some(LedgerIndex(3))>>]
    /\ Val(decryptCall).out.threw
    /\ getMyUtxosPromise = 0

\* C33: a getUtxos call whose session key cannot be decoded is rejected: the
\* synchronization it starts fails in its migration step, before any page
\* request, and a call that finds a handle outstanding throws in its
\* pre-check and starts nothing; neither changes an offset, a ciphertext
\* cache or a recent-activity set of any generation, in the adapter or in
\* chrome.storage.local.
C33_BadKeyRejectsUntouched ==
    [][/\ \A s \in SyncIds : syncs[s].key = "bad" =>
             /\ syncs[s].pc \in {"migrate", "failed"}
             /\ syncs[s].fetches = 0
             /\ syncs[s].persisted = <<>>
             /\ syncs'[s] # syncs[s] =>
                   /\ syncs'[s].pc = "failed"
                   /\ storage' = storage
                   /\ chromeStore' = chromeStore
       /\ (pending = Some("bad") /\ pending' = None) =>
             /\ callError' = Some("bad")
             /\ syncs' = syncs
             /\ getMyUtxosPromise' = getMyUtxosPromise
             /\ storage' = storage
             /\ chromeStore' = chromeStore
       /\ callError' # callError =>
             (pending = Some("bad") /\ pending' = None)]_vars

\* on storage left by an earlier release, a call with an undecodable key
\* started a synchronization that failed in its migration, and a second such
\* call threw in its pre-check: the storage is as the earlier release left it
C33_Witness ==
    /\ Len(syncs) = 1
    /\ syncs[1].key = "bad"
    /\ syncs[1].pc = "failed"
    /\ syncs[1].fetches = 0
    /\ callError = Some("bad")
    /\ storage = LegacyStore
    /\ getMyUtxosPromise = 0

\* C34 (as stated): a getUtxos call for a second wallet made while a
\* synchronization of the first is outstanding starts no synchronization and
\* returns the handle of the first wallet's synchronization.
C34_OtherWalletAttaches ==
    (otherCall # None /\ Val(otherCall).pc = "returned") =>
        /\ Val(otherCall).returned \in SyncIds
        /\ Val(otherCall).returned = Val(otherCall).handleAtCall

\* the second wallet's call returns on this step
OtherReturns ==
    /\ otherCall' # None
    /\ Val(otherCall').pc = "returned"
    /\ otherCall = None \/ Val(otherCall).pc = "precheck"

\* C34 (amended): a getUtxos call for a second wallet made while a
\* synchronization of the first is outstanding returns the handle of the
\* first wallet's synchronization and starts nothing, unless it carries a
\* session key and, after the awaits of its pre-check, either the second
\* wallet has a ciphertext cache under its Hashed key and none under its
\* Encrypted key or the handle has been cleared; it then starts a
\* synchronization for the second wallet. It changes neither the storage nor
\* any synchronization of the first wallet.
C34_OtherWalletAttachesUnlessDiscard ==
    [][OtherReturns =>
          LET c == Val(otherCall')
              discards == /\ c.key # NoKey
                          /\ c.st["encrypted_outputs"]["H"] # None
                          /\ c.st["encrypted_outputs"]["E"] = None
          IN  /\ IF getMyUtxosPromise # 0 /\ ~discards
                 THEN /\ c.returned = getMyUtxosPromise
                      /\ c.returned \in SyncIds
                      /\ getMyUtxosPromise' = getMyUtxosPromise
                 ELSE /\ c.returned = OtherSync
                      /\ getMyUtxosPromise' = OtherSync
              /\ syncs' = syncs
              /\ storage' = storage
              /\ chromeStore' = chromeStore]_vars

\* a call for the second wallet, with session key and nothing stored for
\* that wallet, was given the first wallet's synchronization, which has since
\* resolved to the first wallet's notes
C34_Witness ==
    /\ otherCall # None
    /\ Val(otherCall).key = "k"
    /\ Val(otherCall).st = EmptyStore
    /\ Val(otherCall).pc = "returned"
    /\ Val(otherCall).returned = 1
    /\ syncs[1].pc = "done"
    /\ syncs[1].valid_utxos # <<>>

\* synchronization s has been given a page that reported no further data
SawLastPage(s) ==
    \/ syncs[s].pc \in {"final", "done"}
    \/ syncs[s].pc = "spent" /\ ~syncs[s].hasMore

\* C35: every synchronization ends, resolved or rejected, when every request
\* is answered and the spent check is answered after finitely many retries
\* (the feed being finite, a page without further data is then reported);
\* after a page that reported no further data it requests no page, and the
\* only way it ends is resolved.
C35_SyncTerminates ==
    /\ [][\A s \in SyncIds : SawLastPage(s) =>
             /\ syncs'[s].fetches = syncs[s].fetches
             /\ syncs'[s].pc \in {"spent", "final", "done"}]_vars
    /\ \A s \in 1..MaxSyncs : (s \in SyncIds) ~> (s \in SyncIds /\ Ended(s))

\* a synchronization resolved after two pages of a 4-item feed
C35_Witness ==
    /\ Len(syncs) = 1
    /\ feedLen = FeedLen
    /\ syncs[1].pc = "done"
    /\ syncs[1].fetches = 2
    /\ syncs[1].startOffset = 0
    /\ syncs[1].valid_utxos = <<1, 3>>

\* the positions of the pages whose offset advance synchronization s persisted
PersistedPages(s) ==
    IF syncs[s].persisted = <<>> THEN {}
    ELSE (syncs[s].startOffset + 1)..syncs[s].persisted[Len(syncs[s].persisted)]

\* C36: when a synchronization failed after it had persisted the offset of
\* some pages, the next synchronization, if it succeeds, returns every owned
\* positive-amount note of those pages (no note being spent).
C36_NotesOfPersistedPagesReturned ==
    \A s \in SyncIds :
        (/\ s > 1
         /\ syncs[s - 1].pc = "failed"
         /\ syncs[s].pc = "done"
         /\ accounts = {}) =>
            \A c \in PersistedPages(s - 1) :
                (c <= feedLen /\ Owned(c) /\ Amount(c) > 0) =>
                    c \in Range(syncs[s].valid_utxos)


\* C37: the list a synchronization returns holds the note of any one
\* ciphertext at most once, whatever clearCache, migration and other
\* getUtxos calls do in between
OnceEach(q) == \A i, j \in 1..Len(q) : q[i] = q[j] => i = j

C37_ReturnedOnceEach ==
    \A s \in SyncIds : syncs[s].pc = "done" => OnceEach(syncs[s].valid_utxos)


\* C38: on the page that reports no further data, every decryptable,
\* positive-amount ciphertext of the persisted cache goes through the spent
\* check of that page, and a synchronization that succeeds returns no cached
\* note which that check found spent
FinalCheck(s) ==
    /\ syncs[s].pc = "spent"
    /\ ~syncs[s].hasMore
    /\ syncs'[s].pc = "final"

CheckedOnFinalPage(s) ==
    \A c \in syncs[s].cacheRead :
        (Decrypted(c) /\ IsNonZero(c)) => c \in Range(syncs[s].nonZeroUtxos)

\* note c was spent before the n-th synchronization began
SpentBefore(c, n) == isUtxoSpent(accounts, c) /\ Len(syncs) < n

\* the n-th synchronization succeeded and read c from the persisted cache
ReadFromCache(c, n) ==
    /\ n \in SyncIds
    /\ syncs[n].pc = "done"
    /\ c \in syncs[n].cacheRead

\* the notes the step appends to the list of synchronization s
Appended(s) ==
    Range(SubSeq(syncs'[s].valid_utxos, Len(syncs[s].valid_utxos) + 1,
                 Len(syncs'[s].valid_utxos)))

Spendable == {c \in Ciphertexts : Owned(c) /\ IsNonZero(c)}

C38_CachedSpentNotReturned ==
    /\ [][\A s \in SyncIds : FinalCheck(s) =>
            /\ CheckedOnFinalPage(s)
            /\ \A c \in syncs[s].cacheRead :
                   isUtxoSpent(accounts, c) => c \notin Appended(s)]_vars
    /\ \A c \in Spendable, n \in 1..MaxSeqSyncs :
          [](SpentBefore(c, n) =>
                [](ReadFromCache(c, n) => c \notin Range(syncs[n].valid_utxos)))

\* a synchronization that read notes 1 and 3 from the cache, found note 1
\* spent, and returned note 3 only
C38_Witness ==
    \E s \in SyncIds :
        /\ syncs[s].pc = "done"
        /\ s > 1
        /\ 1 \in Range(syncs[s - 1].valid_utxos)
        /\ {1, 3} \subseteq syncs[s].cacheRead
        /\ isUtxoSpent(accounts, 1)
        /\ 1 \in syncs[s].spentSeen
        /\ Range(syncs[s].valid_utxos) = {3}


\* C39: when migrateStorageKeys is called with a session key and the Legacy,
\* the Hashed and the Encrypted key each hold a fetch offset, the Encrypted
\* key holds the largest of the three afterwards; when each holds a
\* ciphertext cache, the Encrypted key holds afterwards exactly the
\* ciphertexts of the three caches, so none is lost
HeldBefore(kd, g) == Held(Val(migCall).before, kd, g)
AllThreeHeld(kd) == \A g \in Gens : IsSome(HeldBefore(kd, g))

C39_ThreeGenerationsMerged ==
    (IsSome(migCall) /\ LastKey # NoKey) =>
        /\ AllThreeHeld("fetch_offset") =>
               /\ Held(Stores, "fetch_offset", "E") =
                      Some(MaxOf({Val(HeldBefore("fetch_offset", g)) : g \in Gens}))
               /\ Val(Held(Stores, "fetch_offset", "E"))
                      >= Val(HeldBefore("fetch_offset", "E"))
        /\ AllThreeHeld("encrypted_outputs") =>
               /\ IsSome(Held(Stores, "encrypted_outputs", "E"))
               /\ Range(Val(Held(Stores, "encrypted_outputs", "E"))) =
                      UNION {Range(Val(HeldBefore("encrypted_outputs", g))) : g \in Gens}

\* Legacy 10, Hashed 50, Encrypted 30 gave 50; Legacy [1, 2], Hashed [3, 1]
\* and Encrypted [] gave 3, 1, 2
C39_Witness ==
    /\ IsSome(migCall)
    /\ Val(migCall).keys = <<"k">>
    /\ HeldBefore("fetch_offset", "L") = Some(10)
    /\ HeldBefore("fetch_offset", "H") = Some(50)
    /\ HeldBefore("fetch_offset", "E") = Some(30)
    /\ HeldBefore("encrypted_outputs", "L") = Some(<<1, 2>>)
    /\ HeldBefore("encrypted_outputs", "H") = Some(<<3, 1>>)
    /\ HeldBefore("encrypted_outputs", "E") = Some(<<>>)
    /\ Held(Stores, "fetch_offset", "E") = Some(50)
    /\ Held(Stores, "encrypted_outputs", "E") = Some(<<3, 1, 2>>)

====
